---- MODULE Spec2Model ----
(***************************************************************************)
(* A model of omniplan.py: the in-memory document / task graph, its        *)
(* change-tracking and commit pipeline, the custom-data index and the      *)
(* typed value converters.                                                 *)
(*                                                                         *)
(* Objects (Task, Resource, ResourceAssignment, TaskDependency, change     *)
(* records) have identity in Python; here an object is its position in a   *)
(* heap (a sequence), and the handle 0 is the OmniPlanDocument.            *)
(* Operations are written as functions from a heap record `s` to the heap  *)
(* record after the call; `s.error` carries a raised exception.            *)
(***************************************************************************)
EXTENDS Integers, Sequences, FiniteSets, TLC

VARIABLES
    loaded,        \* TRUE once OmniPlanDocument.__init__ has returned
    attrs,         \* attrs[h]: the simple-property attributes of Task h
    tasks,         \* tasks[c]: TaskCollection.tasks of collection c (0 = document)
    parent,        \* parent[h]: TaskCollection.parent of Task h
    change_records,\* change_records[h]: Task.change_records, when the attribute exists
    task_ras,      \* task_ras[h]: Task.resource_assignments
    prerequisites, \* prerequisites[h]: Task.prerequisites (TaskDependency handles)
    dependents,    \* dependents[h]: Task.dependents (TaskDependency handles)
    resources,     \* heap of Resource objects
    assignments,   \* heap of ResourceAssignment objects
    dependencies,  \* heap of TaskDependency objects
    task_map,      \* OmniPlanDocument.task_map: id -> Task handle
    resource_map,  \* OmniPlanDocument.resource_map: id -> Resource handle
    custom_data_value_to_task_map, \* name -> value -> list of Task handles
    selected_tasks,     \* OmniPlanDocument.selected_tasks
    selected_resources, \* OmniPlanDocument.selected_resources
    next_serial,   \* identity of the next change-record object to be constructed
    calls,         \* number of calls the caller has made on the loaded document
    rendered,      \* history: serial -> [task, times, raised] of the records that
                   \* commits have rendered (raised: the bridge call then failed)
    assigned,      \* history: serial -> [before, after], the value a tracked
                   \* property held before and after the assignment that made the record
    last_op,       \* the last call made on the model and what it returned / sent
    cache,         \* the snapshot file /tmp/omniplan-cache.dat
    provenance     \* history: where the payload of the document came from, and the
                   \* tasks and resources made from the results of live bridge calls

heap_vars == <<attrs, tasks, parent, change_records, task_ras, prerequisites,
               dependents, resources, assignments, dependencies, task_map,
               resource_map, custom_data_value_to_task_map, selected_tasks,
               selected_resources, next_serial>>

vars == <<loaded, heap_vars, calls, rendered, assigned, last_op, cache, provenance>>

----------------------------------------------------------------------------
(* Bounds of the model *)

MaxTasks == 3          \* Task objects ever materialized (load + create_task)
MaxCalls == 3          \* calls the caller makes on the loaded document in one run
MaxResources == 2      \* ids the host gives to resources
MaxPairs == 2          \* pairs in a wire-format custom-data list
MaxWorkdays == 3       \* workdays a duration is built from

(* Program constants *)

Doc == 0                                   \* handle of the document
DocumentName == "test.oplx"
None == "None"                             \* Python's None

----------------------------------------------------------------------------
(* Small helpers *)

Range(f) == {f[x] : x \in DOMAIN f}

Last(seq) == seq[Len(seq)]

EmptyDict == [k \in {} |-> None]

\* dict.get(key, default)
Get(dict, key, default) == IF key \in DOMAIN dict THEN dict[key] ELSE default

\* dict[key] = value
Put(dict, key, value) == (key :> value) @@ dict

----------------------------------------------------------------------------
(* Value conversion layer *)

SECONDS_PER_WORKDAY == 8 * 60 * 60

\* Python truthiness of a number or of a missing (None) numeric argument:
\* None and 0 are both false, so a missing argument is written 0.
Truthy(n) == n # 0

\* WorkDayTimeInterval.__init__ ; the object is its _seconds field
WorkDayTimeInterval(seconds, workdays) ==
    [_seconds |-> IF Truthy(seconds) THEN seconds
                  ELSE IF Truthy(workdays) THEN workdays * SECONDS_PER_WORKDAY
                  ELSE 0]

\* WorkDayTimeInterval.seconds
Seconds(interval) == interval._seconds

\* (mutant) the wire value is taken as a number of workdays
WorkDayDecodeAsWorkdays(seconds) == WorkDayTimeInterval(0, seconds)

\* WorkDayTimeIntervalValueConverter
WorkDayDecode(seconds) == WorkDayTimeInterval(seconds, 0)
WorkDayEncode(interval) == Seconds(interval)

\* (mutant) the four bytes in little-endian order
FourCCValueToStringLittleEndian(value) ==
    << value % 256, (value \div 256) % 256, (value \div 65536) % 256,
       (value \div 16777216) % 256 >>

\* struct.pack('>i', value): the four big-endian bytes of a signed 32-bit value
\* (two's complement; \div rounds down, so a negative value gets a high byte >= 128)
FourCCValueToString(value) ==
    << (value \div 16777216) % 256, (value \div 65536) % 256,
       (value \div 256) % 256, value % 256 >>

\* struct.unpack('>i', string)[0]: the high byte carries the sign
FourCCStringToValue(string) ==
    (IF string[1] >= 128 THEN string[1] - 256 ELSE string[1]) * 16777216
        + string[2] * 65536 + string[3] * 256 + string[4]

\* CustomDataValueConverter.decode_omniplan_value: a dict comprehension, so a
\* later pair with the same name overwrites an earlier one
RECURSIVE CustomDataDecode(_)
CustomDataDecode(pairs) ==
    IF pairs = <<>> THEN EmptyDict
    ELSE LET n == Len(pairs)
         IN  Put(CustomDataDecode(SubSeq(pairs, 1, n - 1)), pairs[n].name, pairs[n].value)

\* (mutant) only one item of the dict is encoded
CustomDataEncodeOneItem(data_dict) ==
    IF DOMAIN data_dict = {} THEN <<>>
    ELSE LET key == CHOOSE k \in DOMAIN data_dict : TRUE
         IN  <<[name |-> key, value |-> data_dict[key]]>>

\* CustomDataValueConverter.encode_omniplan_value: one pair per dict item, in the
\* dict's iteration order (here: any fixed order)
RECURSIVE CustomDataEncode(_)
CustomDataEncode(data_dict) ==
    IF DOMAIN data_dict = {} THEN <<>>
    ELSE LET key == CHOOSE k \in DOMAIN data_dict : TRUE
             rest == [k \in DOMAIN data_dict \ {key} |-> data_dict[k]]
         IN  <<[name |-> key, value |-> data_dict[key]]>> \o CustomDataEncode(rest)

\* A date value is [kind, stamp, tzinfo]: kind "datetime" (tzinfo None when
\* naive), kind "empty" for an empty wire value, kind "None" for Python's None.
NoneDate == [kind |-> "None", stamp |-> 0, tzinfo |-> None]

\* UTCDateValueConverter.decode_omniplan_value
UTCDateDecode(value) ==
    IF value.kind # "datetime" THEN NoneDate
    ELSE [value EXCEPT !.tzinfo = "UTC"]

\* Task.property_value_converter_map
WorkDayProperties == {"effort", "completed_effort"}
FourCCProperties == {"task_type", "task_status"}
UTCDateProperties == {"ending_date", "starting_constraint_date", "starting_date"}

\* Task.value_converter_for_property + decode_omniplan_value
DecodeProperty(key, value) ==
    CASE key \in WorkDayProperties -> WorkDayDecode(value)
      [] key = "custom_data" -> CustomDataDecode(value)
      [] key \in FourCCProperties -> FourCCValueToString(value)
      [] key \in UTCDateProperties -> UTCDateDecode(value)
      [] OTHER -> value

\* Task.converted_value_for_property_and_value
ConvertedValueForPropertyAndValue(key, value) ==
    CASE key \in WorkDayProperties -> WorkDayEncode(value)
      [] key = "custom_data" -> CustomDataEncode(value)
      [] key \in FourCCProperties -> FourCCStringToValue(value)
      [] OTHER -> value

----------------------------------------------------------------------------
(* Task: class attributes *)

\* Task.simple_properties
simple_properties ==
    {"completed_effort", "ending_constraint_date", "outline_number", "ending_date",
     "duration", "remaining_effort", "effort", "id", "name", "total_cost",
     "priority", "starting_date", "starting_constraint_date", "prerequisites_data",
     "custom_data", "task_type", "task_status"}

\* (mutant) priority is tracked as well
mutable_simple_properties_with_priority ==
    [effort |-> [quoted |-> FALSE],
     name |-> [quoted |-> TRUE],
     completed_effort |-> [quoted |-> FALSE,
                          applescript_property_name |-> "completed effort"],
     priority |-> [quoted |-> FALSE]]

\* (mutant) no property has an external name of its own or is quoted
mutable_simple_properties_plain ==
    [effort |-> [quoted |-> FALSE],
     name |-> [quoted |-> FALSE],
     completed_effort |-> [quoted |-> FALSE]]

\* Task.mutable_simple_properties
mutable_simple_properties ==
    [effort |-> [quoted |-> FALSE],
     name |-> [quoted |-> TRUE],
     completed_effort |-> [quoted |-> FALSE,
                          applescript_property_name |-> "completed effort"]]

----------------------------------------------------------------------------
(* Change records *)

\* getattr(task, property_name, None)
GetAttr(s, h, property_name) == Get(s.attrs[h], property_name, None)

\* SimplePropertyTaskChangeRecord.__init__ ; serial is the object's identity
SimplePropertyTaskChangeRecord(s, h, property_name) ==
    [kind |-> "simple", serial |-> s.next_serial, task |-> h,
     property_name |-> property_name,
     old_value |-> GetAttr(s, h, property_name)]

\* AddResourceAssignmentTaskChangeRecord.__init__
AddResourceAssignmentTaskChangeRecord(s, resource_assignment) ==
    [kind |-> "add_resource_assignment", serial |-> s.next_serial,
     resource_assignment |-> resource_assignment]

\* SetCustomDataValueTaskChangeRecord.__init__
SetCustomDataValueTaskChangeRecord(s, h, name, value) ==
    [kind |-> "set_custom_data", serial |-> s.next_serial, task |-> h,
     name |-> name, value |-> value]

\* (mutant) no record targets the document
targets_document_never(record) == FALSE

\* TaskChangeRecord.targets_document and its one override
targets_document(record) == record.kind = "add_resource_assignment"

\* Task.add_change_record: a no-op while the change_records attribute does not
\* exist yet (hasattr), i.e. during __init__
add_change_record(s, h, record) ==
    LET s1 == [s EXCEPT !.next_serial = @ + 1]
    IN  IF h \notin DOMAIN s.change_records THEN s1
        ELSE [s1 EXCEPT !.change_records[h] = Append(@, record)]

\* (mutant) the pending lists of all tasks are emptied
clear_change_records_of_all_tasks(s, h) ==
    [s EXCEPT !.change_records = [t \in DOMAIN s.change_records |-> <<>>]]

\* Task.clear_change_records
clear_change_records(s, h) == [s EXCEPT !.change_records[h] = <<>>]

\* (mutant) the change record is made after the new value is installed
SetAttrRecordAfter(s, h, key, value) ==
    LET s1 == [s EXCEPT !.attrs[h] = Put(@, key, value)]
    IN  IF key \in DOMAIN mutable_simple_properties
        THEN add_change_record(s1, h, SimplePropertyTaskChangeRecord(s1, h, key))
        ELSE s1

\* Task.__setattr__
SetAttr(s, h, key, value) ==
    LET s1 == IF key \in DOMAIN mutable_simple_properties
              THEN add_change_record(s, h, SimplePropertyTaskChangeRecord(s, h, key))
              ELSE s
    IN  [s1 EXCEPT !.attrs[h] = Put(@, key, value)]

----------------------------------------------------------------------------
(* Custom-data index and identifier index *)

\* (mutant) the task is appended without the membership test
RegisterCustomDataValueUnchecked(map, key, value, h) ==
    LET by_value == Get(map, key, EmptyDict)
        bucket == Get(by_value, value, <<>>)
    IN  Put(map, key, Put(by_value, value, Append(bucket, h)))

\* the body of the loop of update_custom_data_value_to_task_map_for_task:
\* setdefault(key, {}).setdefault(value, []), then append unless already a member
RegisterCustomDataValue(map, key, value, h) ==
    LET by_value == Get(map, key, EmptyDict)
        bucket == Get(by_value, value, <<>>)
        bucket1 == IF h \in Range(bucket) THEN bucket ELSE Append(bucket, h)
    IN  Put(map, key, Put(by_value, value, bucket1))

RECURSIVE RegisterCustomData(_, _, _, _)
RegisterCustomData(map, custom_data, keys, h) ==
    IF keys = {} THEN map
    ELSE LET key == CHOOSE k \in keys : TRUE
         IN  RegisterCustomData(RegisterCustomDataValue(map, key, custom_data[key], h),
                                custom_data, keys \ {key}, h)

\* OmniPlanDocument.update_custom_data_value_to_task_map_for_task
update_custom_data_value_to_task_map_for_task(s, h) ==
    [s EXCEPT !.custom_data_value_to_task_map =
        RegisterCustomData(@, s.attrs[h].custom_data, DOMAIN s.attrs[h].custom_data, h)]

\* OmniPlanDocument.tasks_for_custom_data_value
tasks_for_custom_data_value(s, key, value) ==
    Get(Get(s.custom_data_value_to_task_map, key, EmptyDict), value, <<>>)

\* (mutant) only the first child of a collection is registered
task_added_first_child_only(s, h) ==
    IF Len(s.tasks[s.parent[h]]) = 1
    THEN update_custom_data_value_to_task_map_for_task(
             [s EXCEPT !.task_map = Put(@, s.attrs[h].id, h)], h)
    ELSE s

\* OmniPlanDocument.task_added
task_added(s, h) ==
    update_custom_data_value_to_task_map_for_task(
        [s EXCEPT !.task_map = Put(@, s.attrs[h].id, h)], h)

\* TaskCollection.root / TaskCollection.document: follow parent while it is set
RECURSIVE root(_, _)
root(s, c) == IF c = Doc THEN Doc ELSE root(s, s.parent[c])

\* (mutant) every task is appended to the child list of the document
add_task_to_document(s, c, h) == task_added([s EXCEPT !.tasks[Doc] = Append(@, h)], h)

\* (mutant) the task becomes the first child of the collection
add_task_as_first_child(s, c, h) == task_added([s EXCEPT !.tasks[c] = <<h>> \o @], h)

\* TaskCollection.add_task ; self.document() is the one OmniPlanDocument
add_task(s, c, h) == task_added([s EXCEPT !.tasks[c] = Append(@, h)], h)

----------------------------------------------------------------------------
(* Exceptions: s.error is [type, detail]; a raised exception ends the call *)

NoError == [type |-> "ok", detail |-> {}]
Raise(s, type, detail) == [s EXCEPT !.error = [type |-> type, detail |-> detail]]
Failed(s) == s.error.type # "ok"

----------------------------------------------------------------------------
(* Task materialization *)

\* The order in which task_data.items() yields the keys of a property bag
\* (any key not listed is not part of the model's bags)
PropertyOrder ==
    <<"id", "name", "effort", "completed_effort", "remaining_effort", "duration",
      "priority", "total_cost", "outline_number", "task_type", "task_status",
      "starting_date", "ending_date", "starting_constraint_date",
      "ending_constraint_date", "custom_data", "child_tasks", "prerequisites_data",
      "unknown_key">>

InBag(task_data, key) == key \in DOMAIN task_data
KeyOrder(task_data) == SelectSeq(PropertyOrder, LAMBDA key : InBag(task_data, key))

RECURSIVE TaskInit(_, _, _)
RECURSIVE TaskInitKeys(_, _, _, _)
RECURSIVE add_tasks_for_task_data_list(_, _, _)

\* Task.__init__, lines 366-371: a new object (handle h) with its empty lists
TaskNew(s, par) ==
    LET h == Len(s.attrs) + 1
    IN  [s EXCEPT !.attrs = Append(@, EmptyDict),
                  !.parent = Append(@, par),
                  !.tasks = Put(@, h, <<>>),
                  !.task_ras = Append(@, <<>>),
                  !.prerequisites = Append(@, <<>>),
                  !.dependents = Append(@, <<>>)]

\* Task.__init__, the end: the attribute that starts the capture of updates
StartCapturing(s, h) == [s EXCEPT !.change_records = Put(@, h, <<>>)]

\* (mutant) a key that is neither a simple property nor child_tasks is ignored
TaskInitKeysIgnoringUnknown(s, h, task_data, keys) ==
    IF keys = <<>> \/ Failed(s) THEN s
    ELSE LET key == Head(keys)
             value == DecodeProperty(key, task_data[key])
             s1 == IF key \in simple_properties THEN SetAttr(s, h, key, value)
                   ELSE IF key = "child_tasks"
                        THEN add_tasks_for_task_data_list(s, value, h)
                        ELSE s
         IN  TaskInitKeys(s1, h, task_data, Tail(keys))

\* Task.__init__, lines 373-392: the loop over the property bag
TaskInitKeys(s, h, task_data, keys) ==
    IF keys = <<>> \/ Failed(s) THEN s
    ELSE LET key == Head(keys)
             value == DecodeProperty(key, task_data[key])
             s1 == IF key \in simple_properties THEN SetAttr(s, h, key, value)
                   ELSE IF key = "child_tasks"
                        THEN add_tasks_for_task_data_list(s, value, h)
                        ELSE Raise(s, "Unknown key/value pair in task data", {key})
         IN  TaskInitKeys(s1, h, task_data, Tail(keys))

\* (mutant) the capture of updates starts before the property bag is read
TaskInitCapturingFromStart(s, task_data, par) ==
    LET h == Len(s.attrs) + 1
        s1 == TaskInitKeys(StartCapturing(TaskNew(s, par), h), h, task_data,
                           KeyOrder(task_data))
        missing_simple_properties == simple_properties \ DOMAIN task_data
    IN  IF Failed(s1) THEN s1
        ELSE IF missing_simple_properties # {}
             THEN Raise(s1, "Missing key/value pair(s) in task data",
                        missing_simple_properties)
             ELSE [s1 EXCEPT !.ret = h]

\* Task.__init__ ; s.ret is the new object
TaskInit(s, task_data, par) ==
    LET h == Len(s.attrs) + 1
        s1 == TaskInitKeys(TaskNew(s, par), h, task_data, KeyOrder(task_data))
        missing_simple_properties == simple_properties \ DOMAIN task_data
    IN  IF Failed(s1) THEN s1
        ELSE IF missing_simple_properties # {}
             THEN Raise(s1, "Missing key/value pair(s) in task data",
                        missing_simple_properties)
             ELSE [StartCapturing(s1, h) EXCEPT !.ret = h]

\* TaskCollection.add_tasks_for_task_data_list
add_tasks_for_task_data_list(s, task_data_list, c) ==
    IF task_data_list = <<>> \/ Failed(s) THEN s
    ELSE LET s1 == TaskInit(s, Head(task_data_list), c)
         IN  IF Failed(s1) THEN s1
             ELSE add_tasks_for_task_data_list(add_task(s1, c, s1.ret),
                                               Tail(task_data_list), c)

\* TaskCollection.self_and_descendants / descendants: depth first, pre-order
RECURSIVE descendants(_, _)
RECURSIVE DescendantsOfList(_, _)

\* (mutant) a task is yielded after its descendants
DescendantsOfListPostOrder(s, list) ==
    IF list = <<>> THEN <<>>
    ELSE descendants(s, Head(list)) \o <<Head(list)>> \o DescendantsOfList(s, Tail(list))

DescendantsOfList(s, list) ==
    IF list = <<>> THEN <<>>
    ELSE <<Head(list)>> \o descendants(s, Head(list)) \o DescendantsOfList(s, Tail(list))
descendants(s, c) == DescendantsOfList(s, s.tasks[c])

\* OmniPlanDocument.all_tasks
all_tasks(s) == descendants(s, Doc)

----------------------------------------------------------------------------
(* Resources, assignments, dependencies *)

\* OmniPlanDocument.task_for_id / resource_for_id: a KeyError on a miss
HasTask(s, id) == id \in DOMAIN s.task_map
HasResource(s, id) == id \in DOMAIN s.resource_map

\* (mutant) the assignment registers itself with the resource only
ResourceAssignmentInitResourceOnly(s, r, h, units) ==
    LET a == Len(s.assignments) + 1
    IN  [s EXCEPT !.assignments = Append(@, [resource |-> r, task |-> h, units |-> units]),
                  !.resources[r].resource_assignments = Append(@, a),
                  !.ret = a]

\* ResourceAssignment.__init__ : registers itself with the resource and the task
ResourceAssignmentInit(s, r, h, units) ==
    LET a == Len(s.assignments) + 1
    IN  [s EXCEPT !.assignments = Append(@, [resource |-> r, task |-> h, units |-> units]),
                  !.resources[r].resource_assignments = Append(@, a),
                  !.task_ras[h] = Append(@, a),
                  !.ret = a]

\* Task.assigned_resources
assigned_resources(s, h) ==
    [i \in 1..Len(s.task_ras[h]) |-> s.assignments[s.task_ras[h][i]].resource]

\* Resource.assigned_tasks
assigned_tasks(s, r) ==
    [i \in 1..Len(s.resources[r].resource_assignments) |->
        s.assignments[s.resources[r].resource_assignments[i]].task]

\* (mutant) the dependency registers itself with the prerequisite task only
TaskDependencyInitPrerequisiteOnly(s, prerequisite_task, dependent_task, dependency_type) ==
    LET d == Len(s.dependencies) + 1
    IN  [s EXCEPT !.dependencies = Append(@, [prerequisite_task |-> prerequisite_task,
                                              dependent_task |-> dependent_task,
                                              dependency_type |-> dependency_type]),
                  !.dependents[prerequisite_task] = Append(@, d)]

\* (mutant) the edge is built with its two tasks exchanged
TaskDependencyInitExchanged(s, prerequisite_task, dependent_task, dependency_type) ==
    LET d == Len(s.dependencies) + 1
    IN  [s EXCEPT !.dependencies = Append(@, [prerequisite_task |-> dependent_task,
                                              dependent_task |-> prerequisite_task,
                                              dependency_type |-> dependency_type]),
                  !.dependents[dependent_task] = Append(@, d),
                  !.prerequisites[prerequisite_task] = Append(@, d)]

\* TaskDependency.__init__ : registers itself with both tasks
TaskDependencyInit(s, prerequisite_task, dependent_task, dependency_type) ==
    LET d == Len(s.dependencies) + 1
    IN  [s EXCEPT !.dependencies = Append(@, [prerequisite_task |-> prerequisite_task,
                                              dependent_task |-> dependent_task,
                                              dependency_type |-> dependency_type]),
                  !.dependents[prerequisite_task] = Append(@, d),
                  !.prerequisites[dependent_task] = Append(@, d)]

\* Task.dependent_tasks
dependent_tasks(s, h) ==
    [i \in 1..Len(s.dependents[h]) |-> s.dependencies[s.dependents[h][i]].dependent_task]

\* Task.prerequisite_tasks
prerequisite_tasks(s, h) ==
    [i \in 1..Len(s.prerequisites[h]) |->
        s.dependencies[s.prerequisites[h][i]].prerequisite_task]

\* Resource.__init__ + OmniPlanDocument.add_resource ; s.ret is the new object
AddNewResource(s, id, name) ==
    LET r == Len(s.resources) + 1
    IN  [s EXCEPT !.resources = Append(@, [id |-> id, name |-> name,
                                           resource_assignments |-> <<>>]),
                  !.resource_map = Put(@, id, r),
                  !.ret = r]

\* OmniPlanDocument.parse_resources, the inner loop over task_assignments
RECURSIVE ParseAssignments(_, _, _)
ParseAssignments(s, r, assignment_list) ==
    IF assignment_list = <<>> \/ Failed(s) THEN s
    ELSE LET assignment_data == Head(assignment_list)
             s1 == IF HasTask(s, assignment_data.task_id)
                   THEN ResourceAssignmentInit(s, r, s.task_map[assignment_data.task_id],
                                               assignment_data.units)
                   ELSE Raise(s, "KeyError: task_for_id", {"task_assignments"})
         IN  ParseAssignments(s1, r, Tail(assignment_list))

\* OmniPlanDocument.parse_resources
RECURSIVE ParseResourceList(_, _)
ParseResourceList(s, resource_list) ==
    IF resource_list = <<>> \/ Failed(s) THEN s
    ELSE LET resource_data == Head(resource_list)
             s1 == AddNewResource(s, resource_data.id, resource_data.name)
         IN  ParseResourceList(ParseAssignments(s1, s1.ret, resource_data.task_assignments),
                               Tail(resource_list))

parse_resources(s, document_data) == ParseResourceList(s, document_data.resources)

RECURSIVE ProcessPrerequisites(_, _)

\* (mutant) a descriptor that names an absent task is skipped
ProcessPrerequisitesSkippingAbsent(s, items) ==
    IF items = <<>> \/ Failed(s) THEN s
    ELSE LET item == Head(items)
             s1 == IF HasTask(s, item.prerequisite_task_id) /\ HasTask(s, item.dependent_task_id)
                   THEN TaskDependencyInit(s, s.task_map[item.prerequisite_task_id],
                                           s.task_map[item.dependent_task_id],
                                           FourCCValueToString(item.dependency_type))
                   ELSE s
         IN  ProcessPrerequisites(s1, Tail(items))

\* OmniPlanDocument.process_dependencies, the inner loop over prerequisites_data
ProcessPrerequisites(s, items) ==
    IF items = <<>> \/ Failed(s) THEN s
    ELSE LET item == Head(items)
             s1 == IF HasTask(s, item.prerequisite_task_id) /\ HasTask(s, item.dependent_task_id)
                   THEN TaskDependencyInit(s, s.task_map[item.prerequisite_task_id],
                                           s.task_map[item.dependent_task_id],
                                           FourCCValueToString(item.dependency_type))
                   ELSE Raise(s, "KeyError: task_for_id", {"prerequisites_data"})
         IN  ProcessPrerequisites(s1, Tail(items))

\* OmniPlanDocument.process_dependencies
RECURSIVE ProcessDependenciesOf(_, _)
ProcessDependenciesOf(s, task_list) ==
    IF task_list = <<>> \/ Failed(s) THEN s
    ELSE ProcessDependenciesOf(
             ProcessPrerequisites(s, s.attrs[Head(task_list)].prerequisites_data),
             Tail(task_list))

process_dependencies(s) == ProcessDependenciesOf(s, all_tasks(s))

\* The ids of a list that come before the first one that is not a key of map:
\* list.extend(generator) keeps what the generator yielded before it raised
ResolvedPrefix(ids, map) ==
    SubSeq(ids, 1, CHOOSE n \in 0..Len(ids) :
                      /\ \A i \in 1..n : ids[i] \in DOMAIN map
                      /\ n < Len(ids) => ids[n + 1] \notin DOMAIN map)

\* OmniPlanDocument.parse_selection
parse_selection(s, document_data) ==
    LET task_ids == document_data.selected_task_ids
        resource_ids == document_data.selected_resource_ids
        found_tasks == ResolvedPrefix(task_ids, s.task_map)
        found_resources == ResolvedPrefix(resource_ids, s.resource_map)
        s1 == [s EXCEPT !.selected_tasks =
                  @ \o [i \in DOMAIN found_tasks |-> s.task_map[found_tasks[i]]]]
    IN  IF Failed(s) THEN s
        ELSE IF \E i \in DOMAIN task_ids : ~HasTask(s, task_ids[i])
        THEN Raise(s1, "KeyError: task_for_id", {"selected_task_ids"})
        ELSE LET s2 == [s1 EXCEPT !.selected_resources =
                           @ \o [i \in DOMAIN found_resources |->
                                    s.resource_map[found_resources[i]]]]
             IN  IF \E i \in DOMAIN resource_ids : ~HasResource(s, resource_ids[i])
                 THEN Raise(s2, "KeyError: resource_for_id", {"selected_resource_ids"})
                 ELSE s2

\* OmniPlanDocument.parse_document_data
parse_document_data(s, document_data) ==
    LET s1 == add_tasks_for_task_data_list(s, document_data.child_tasks, Doc)
        s2 == IF Failed(s1) THEN s1 ELSE parse_resources(s1, document_data)
        s3 == IF Failed(s2) THEN s2 ELSE process_dependencies(s2)
    IN  parse_selection(s3, document_data)

----------------------------------------------------------------------------
(* Rendering of change records *)

\* A text value (a task name) is a sequence of one-character strings.
RECURSIVE Join(_)
Join(chars) == IF chars = <<>> THEN "" ELSE Head(chars) \o Join(Tail(chars))

\* value.replace('"', r'\"')
EscapeQuotes(chars) ==
    [i \in DOMAIN chars |-> IF chars[i] = "\"" THEN "\\\"" ELSE chars[i]]

\* Task.applescript_value_for_property_and_value, as formatted by "{}".format
applescript_value_for_property_and_value(property_name, value) ==
    LET value_description == mutable_simple_properties[property_name]
        converted == ConvertedValueForPropertyAndValue(property_name, value)
    IN  IF Get(value_description, "quoted", FALSE)
        THEN "\"" \o Join(EscapeQuotes(converted)) \o "\""
        ELSE ToString(converted)

\* Task.applescript_value_for_property: the attribute's value when it is rendered
applescript_value_for_property(s, h, property_name) ==
    applescript_value_for_property_and_value(property_name, s.attrs[h][property_name])

\* Task.applescript_name_for_property
applescript_name_for_property(property_name) ==
    Get(mutable_simple_properties[property_name], "applescript_property_name",
        property_name)

\* (mutant) a simple record renders the value its property had when the
\* record was made
change_applescript_code_with_recorded_value(s, record) ==
    CASE record.kind = "simple" ->
            "set " \o applescript_name_for_property(record.property_name) \o " to "
                \o applescript_value_for_property_and_value(record.property_name,
                                                            record.old_value)
      [] record.kind = "add_resource_assignment" ->
            LET a == s.assignments[record.resource_assignment]
            IN  "assign resource " \o ToString(s.resources[a.resource].id)
                    \o " to task " \o ToString(s.attrs[a.task].id)
                    \o " units " \o ToString(a.units)
      [] record.kind = "set_custom_data" ->
            "make custom data entry with properties {name:\"" \o record.name
                \o "\", value:\"" \o record.value \o "\"}"

\* change_applescript_code of the three kinds of change record
change_applescript_code(s, record) ==
    CASE record.kind = "simple" ->
            "set " \o applescript_name_for_property(record.property_name) \o " to "
                \o applescript_value_for_property(s, record.task, record.property_name)
      [] record.kind = "add_resource_assignment" ->
            LET a == s.assignments[record.resource_assignment]
            IN  "assign resource " \o ToString(s.resources[a.resource].id)
                    \o " to task " \o ToString(s.attrs[a.task].id)
                    \o " units " \o ToString(a.units)
      [] record.kind = "set_custom_data" ->
            "make custom data entry with properties {name:\"" \o record.name
                \o "\", value:\"" \o record.value \o "\"}"

\* (mutant) the records are rendered last first
RenderRecordsReversed(s, records) ==
    [i \in DOMAIN records |->
        [code |-> change_applescript_code(s, records[Len(records) + 1 - i]),
         serial |-> records[Len(records) + 1 - i].serial]]

\* '\n'.join(record.change_applescript_code() for record in records): the lines,
\* each with the identity of the record it renders
RenderRecords(s, records) ==
    [i \in DOMAIN records |-> [code |-> change_applescript_code(s, records[i]),
                               serial |-> records[i].serial]]

\* OmniPlanDocument.applescript_target_wrapper().format(body)
DocumentTargetWrapper(body) ==
    [tell |-> "document", document |-> DocumentName, body |-> body]

\* Task.applescript_target_wrapper().format(body): the task scope nested in the
\* document scope
TaskTargetWrapper(s, h, body) ==
    DocumentTargetWrapper([tell |-> "task", task |-> s.attrs[h].id, body |-> body])

----------------------------------------------------------------------------
(* Commit *)

\* AppleScript(code).run() as used for writes: the call is made and either
\* returns or raises (osascript cannot be started)
BridgeRun(code, bridge_raises) == [sent |-> <<code>>, raised |-> bridge_raises]
NoBridgeRun == [sent |-> <<>>, raised |-> FALSE]

\* Task.commit_changes, lines 509-515: the task-scope batch followed by the
\* document-scope batch
CommitScript(s, h, records_targeting_task, records_targeting_document) ==
    << TaskTargetWrapper(s, h, RenderRecords(s, records_targeting_task)),
       DocumentTargetWrapper(RenderRecords(s, records_targeting_document)) >>

\* Task.commit_changes, lines 519-523
CommitSend(script, dry_run, bridge_raises) ==
    IF dry_run THEN NoBridgeRun ELSE BridgeRun(script, bridge_raises)

\* (mutant) the pending list is cleared only once the script has been sent
commit_changes_clear_on_success(s, h, dry_run, bridge_raises) ==
    LET records == s.change_records[h]
        script == CommitScript(s, h,
                      SelectSeq(records, LAMBDA record : ~targets_document(record)),
                      SelectSeq(records, targets_document))
        s1 == IF dry_run \/ bridge_raises THEN s ELSE clear_change_records(s, h)
    IN  [s1 EXCEPT !.ret =
            [script |-> script,
             pending_when_rendered |-> Len(s.change_records[h]),
             printed |-> dry_run,
             bridge |-> CommitSend(script, dry_run, bridge_raises)]]

\* (mutant) nothing is sent when no change record is pending
commit_changes_skip_when_empty(s, h, dry_run, bridge_raises) ==
    LET records == s.change_records[h]
        s1 == clear_change_records(s, h)
        script == CommitScript(s1, h,
                      SelectSeq(records, LAMBDA record : ~targets_document(record)),
                      SelectSeq(records, targets_document))
    IN  [s1 EXCEPT !.ret =
            [script |-> script,
             pending_when_rendered |-> Len(s1.change_records[h]),
             printed |-> dry_run,
             bridge |-> IF records = <<>> THEN NoBridgeRun
                        ELSE CommitSend(script, dry_run, bridge_raises)]]

\* Task.commit_changes ; s.ret is [script, pending_when_rendered, printed, bridge]
commit_changes(s, h, dry_run, bridge_raises) ==
    LET records == s.change_records[h]
        records_targeting_document == SelectSeq(records, targets_document)
        records_targeting_task ==
            SelectSeq(records, LAMBDA record : ~targets_document(record))
        s1 == clear_change_records(s, h)
        script == CommitScript(s1, h, records_targeting_task, records_targeting_document)
    IN  [s1 EXCEPT !.ret =
            [script |-> script,
             pending_when_rendered |-> Len(s1.change_records[h]),
             printed |-> dry_run,
             bridge |-> CommitSend(script, dry_run, bridge_raises)]]

----------------------------------------------------------------------------
(* The caller-facing mutators *)

\* Task.set_custom_data_value
set_custom_data_value(s, h, name, value) ==
    LET s1 == [s EXCEPT !.attrs[h].custom_data = Put(@, name, value)]
        s2 == update_custom_data_value_to_task_map_for_task(s1, h)
    IN  add_change_record(s2, h, SetCustomDataValueTaskChangeRecord(s2, h, name, value))

\* (mutant) a resource already assigned to the task is not assigned again
assign_to_resource_unless_assigned(s, h, r) ==
    IF r \in Range(assigned_resources(s, h)) THEN s
    ELSE LET s1 == ResourceAssignmentInit(s, r, h, 1)
         IN  add_change_record(s1, h, AddResourceAssignmentTaskChangeRecord(s1, s1.ret))

\* Task.assign_to_resource
assign_to_resource(s, h, r) ==
    LET s1 == ResourceAssignmentInit(s, r, h, 1)
    IN  add_change_record(s1, h, AddResourceAssignmentTaskChangeRecord(s1, s1.ret))

----------------------------------------------------------------------------
(* The host application, as seen through the two bridges *)

NameA == <<"A">>
NameB == <<"B", "\"">>
Names == {NameB}
Efforts == {WorkDayTimeInterval(14400, 0)}
CompletedEfforts == {WorkDayTimeInterval(14400, 0)}
Priorities == {2}
CustomNames == {"CustomKey"}
CustomValues == {"X", "Y"}
SettableCustomValues == {"Y"}
TaskIds == 1..MaxTasks

NaiveDate == [kind |-> "datetime", stamp |-> 1, tzinfo |-> None]
EmptyDate == [kind |-> "empty", stamp |-> 0, tzinfo |-> None]
OPTS == FourCCStringToValue(<<79, 80, 84, 83>>)   \* the task type 'OPTS'
OPTo == FourCCStringToValue(<<79, 80, 84, 111>>)  \* the task status 'OPTo'
OPFS == FourCCStringToValue(<<79, 80, 70, 83>>)   \* a dependency type

\* record_for_task of the query script: the property bag the host returns
TaskRecord(id, name, effort, custom_data, prerequisites_list, child_task_list) ==
    [id |-> id, name |-> name, completed_effort |-> 0, duration |-> effort,
     effort |-> effort, ending_date |-> NaiveDate, ending_constraint_date |-> EmptyDate,
     outline_number |-> "1", priority |-> 1, remaining_effort |-> effort,
     starting_constraint_date |-> EmptyDate, starting_date |-> NaiveDate,
     task_status |-> OPTo, task_type |-> OPTS, total_cost |-> 0,
     child_tasks |-> child_task_list, custom_data |-> custom_data,
     prerequisites_data |-> prerequisites_list]

CustomPair(value) == <<[name |-> "CustomKey", value |-> value]>>

Prerequisite(prerequisite_task_id, dependent_task_id) ==
    [dependency_type |-> OPFS, dependent_task_id |-> dependent_task_id,
     prerequisite_task_id |-> prerequisite_task_id, lead_percentage |-> 0,
     lead_time |-> 0]

ResourceRecord(id, name, assignment_list) ==
    [id |-> id, name |-> name, task_assignments |-> assignment_list]

\* The document the host holds when the model is constructed: task 1 with the
\* child task 2, which depends on it; resource 1 is assigned to task 1
NestedDocument ==
    [child_tasks |->
        <<TaskRecord(1, NameA, 28800, CustomPair("X"), <<>>,
            <<TaskRecord(2, NameA, 28800, CustomPair("X"), <<Prerequisite(1, 2)>>,
                         <<>>)>>)>>,
     resources |-> <<ResourceRecord(1, "Resource 1", <<[task_id |-> 1, units |-> 1]>>)>>,
     selected_task_ids |-> <<2>>,
     selected_resource_ids |-> <<1>>]

\* An identifier that no task and no resource of the host has
AbsentId == 9

\* Without(bag, key): the property bag without one of its keys
Without(bag, key) == [k \in DOMAIN bag \ {key} |-> bag[k]]

\* Host data that the load rejects: a property bag with a key the model does
\* not know, bags that lack a required property, and references to absent ids
UnknownKeyDocument ==
    [NestedDocument EXCEPT !.child_tasks =
        <<TaskRecord(1, NameA, 28800, <<>>, <<>>, <<>>),
          [unknown_key |-> 0] @@ TaskRecord(2, NameA, 28800, <<>>, <<>>, <<>>)>>]

MissingKeyDocument ==
    [NestedDocument EXCEPT !.child_tasks =
        <<TaskRecord(1, NameA, 28800, <<>>, <<>>,
            <<Without(TaskRecord(2, NameA, 28800, <<>>, <<>>, <<>>), "priority")>>)>>]

UnknownAndMissingKeyDocument ==
    [NestedDocument EXCEPT !.child_tasks =
        <<[unknown_key |-> 0] @@
            Without(TaskRecord(1, NameA, 28800, <<>>, <<>>, <<>>), "priority"),
          TaskRecord(2, NameA, 28800, <<>>, <<>>, <<>>)>>]

\* A bag that lacks a required property and has a well-formed child task
MissingKeyWithChildDocument ==
    [NestedDocument EXCEPT !.child_tasks =
        <<Without(TaskRecord(1, NameA, 28800, <<>>, <<>>,
                    <<TaskRecord(2, NameA, 28800, CustomPair("X"), <<>>, <<>>)>>),
                  "priority")>>]

DanglingPrerequisiteDocument ==
    [NestedDocument EXCEPT !.child_tasks =
        <<TaskRecord(1, NameA, 28800, <<>>, <<Prerequisite(AbsentId, 1)>>, <<>>),
          TaskRecord(2, NameA, 28800, <<>>, <<>>, <<>>)>>]

DanglingAssignmentDocument ==
    [NestedDocument EXCEPT !.resources =
        <<ResourceRecord(1, "Resource 1", <<[task_id |-> 1, units |-> 1],
                                            [task_id |-> AbsentId, units |-> 1]>>)>>]

DanglingTaskSelectionDocument ==
    [NestedDocument EXCEPT !.selected_task_ids = <<2, AbsentId>>]

DanglingResourceSelectionDocument ==
    [NestedDocument EXCEPT !.selected_resource_ids = <<AbsentId>>]

RejectedDocuments ==
    {UnknownKeyDocument, MissingKeyDocument, UnknownAndMissingKeyDocument,
     MissingKeyWithChildDocument,
     DanglingPrerequisiteDocument, DanglingAssignmentDocument,
     DanglingTaskSelectionDocument, DanglingResourceSelectionDocument}

Documents == {NestedDocument} \cup RejectedDocuments

\* Property dicts passed to create_task
CreateProperties ==
    {[name |-> NameB, effort |-> WorkDayTimeInterval(0, 1)]}

\* What the host makes of `make new task with properties {...}` and then
\* returns for the task-data query: a record with the new id and the properties
HostNewTaskRecord(id, properties) ==
    TaskRecord(id, Get(properties, "name", <<>>),
               IF "effort" \in DOMAIN properties THEN WorkDayEncode(properties.effort)
               ELSE 0,
               <<>>, <<>>, <<>>)

----------------------------------------------------------------------------
(* Document construction and task creation *)

\* OmniPlanDocument.__init__, lines 576-585: a new document object, before the
\* load, on a heap of its own
NewDocument ==
    [attrs |-> <<>>, tasks |-> (Doc :> <<>>), parent |-> <<>>,
     change_records |-> EmptyDict, task_ras |-> <<>>, prerequisites |-> <<>>,
     dependents |-> <<>>, resources |-> <<>>, assignments |-> <<>>,
     dependencies |-> <<>>, task_map |-> EmptyDict, resource_map |-> EmptyDict,
     custom_data_value_to_task_map |-> EmptyDict, selected_tasks |-> <<>>,
     selected_resources |-> <<>>, next_serial |-> 1, error |-> NoError, ret |-> None]

\* The snapshot file: absent, not loadable by pickle (the exception is
\* swallowed), a pickled value that is false, or the pickled pair of a payload
AbsentFile == [kind |-> "absent", document_data |-> EmptyDict]
UnreadableFile == [kind |-> "unreadable", document_data |-> EmptyDict]
EmptyPickle == [kind |-> "empty", document_data |-> EmptyDict]
Snapshot(document_data) == [kind |-> "snapshot", document_data |-> document_data]

\* bool(document_data) of a payload: a dict is true unless it is empty
PayloadTruthy(document_data) == DOMAIN document_data # {}

\* read_document, lines 596-603: the payload taken from the snapshot file
\* (self.document_data stays None unless the file holds a pair)
CachedPayload(allow_cache, file) ==
    IF allow_cache /\ file.kind = "snapshot" THEN file.document_data ELSE EmptyDict

\* (mutant) the load goes on with whatever the host has when the query gave no output
read_document_without_output_check(allow_cache, file, output) ==
    LET cached == CachedPayload(allow_cache, file)
    IN  IF PayloadTruthy(cached)
        THEN [error |-> NoError, document_data |-> cached, queried |-> FALSE,
              file |-> file]
        ELSE [error |-> NoError, document_data |-> output.document_data,
              queried |-> TRUE,
              file |-> IF allow_cache THEN Snapshot(output.document_data) ELSE file]

\* (mutant) the snapshot is read whether or not caching was asked for
read_document_always_cached(allow_cache, file, output) ==
    LET cached == CachedPayload(TRUE, file)
    IN  IF PayloadTruthy(cached)
        THEN [error |-> NoError, document_data |-> cached, queried |-> FALSE,
              file |-> file]
        ELSE IF output.empty
             THEN [error |-> [type |-> "Unable to get project data for OmniPlan document",
                              detail |-> {DocumentName}],
                   document_data |-> EmptyDict, queried |-> TRUE, file |-> file]
             ELSE [error |-> NoError, document_data |-> output.document_data,
                   queried |-> TRUE,
                   file |-> IF allow_cache THEN Snapshot(output.document_data) ELSE file]

\* OmniPlanDocument.read_document ; output is what the live query would print.
\* The result is [error, document_data, queried, file]: the payload, whether
\* the query bridge was called, and the snapshot file after the call
read_document(allow_cache, file, output) ==
    LET cached == CachedPayload(allow_cache, file)
    IN  IF PayloadTruthy(cached)
        THEN [error |-> NoError, document_data |-> cached, queried |-> FALSE,
              file |-> file]
        ELSE IF output.empty
             THEN [error |-> [type |-> "Unable to get project data for OmniPlan document",
                              detail |-> {DocumentName}],
                   document_data |-> EmptyDict, queried |-> TRUE, file |-> file]
             ELSE [error |-> NoError, document_data |-> output.document_data,
                   queried |-> TRUE,
                   file |-> IF allow_cache THEN Snapshot(output.document_data) ELSE file]

\* OmniPlanDocument.__init__ ; the result is [read, heap]
DocumentInit(allow_cache, file, output) ==
    LET read == read_document(allow_cache, file, output)
        s == [NewDocument EXCEPT !.error = read.error]
    IN  [read |-> read,
         heap |-> IF Failed(s) THEN s ELSE parse_document_data(s, read.document_data)]

\* OmniPlanDocument.create_resource ; new_id is the id the host gives the new
\* resource. s.ret is [resource, bridge]
create_resource(s, name, new_id) ==
    LET create_resource_code ==
            DocumentTargetWrapper([make |-> "resource", name |-> name])
        s1 == AddNewResource(s, new_id, name)
    IN  [s1 EXCEPT !.ret = [resource |-> s1.ret, bridge |-> <<create_resource_code>>]]

\* TaskCollection.encoded_properties: (key, applescript name, applescript value)
RECURSIVE EncodeKeys(_, _)
EncodeKeys(properties, keys) ==
    IF keys = {} THEN <<>>
    ELSE LET key == CHOOSE k \in keys : TRUE
         IN  <<[key |-> key,
                applescript_property_name |-> applescript_name_for_property(key),
                applescript_value |->
                    applescript_value_for_property_and_value(key, properties[key])]>>
             \o EncodeKeys(properties, keys \ {key})

encoded_properties(properties) == EncodeKeys(properties, DOMAIN properties)

\* TaskCollection.applescript_target_wrapper of a Task or of the document
TargetWrapper(s, c, body) ==
    IF c = Doc THEN DocumentTargetWrapper(body) ELSE TaskTargetWrapper(s, c, body)

\* TaskCollection.create_task ; new_id is the id the host gives the new task
\* s.ret is [task, bridge] : the new Task and the bridge calls made
create_task(s, c, properties, new_id) ==
    IF \E key \in DOMAIN properties : key \notin DOMAIN mutable_simple_properties
    THEN [Raise(s, "AttributeError: 'NoneType' object has no attribute 'get'",
                DOMAIN properties \ DOMAIN mutable_simple_properties)
            EXCEPT !.ret = [task |-> 0, bridge |-> <<>>]]
    ELSE
    LET encoded == encoded_properties(properties)
        pairs == [i \in DOMAIN encoded |->
                     encoded[i].applescript_property_name \o ": "
                         \o encoded[i].applescript_value]
        create_task_code ==
            TargetWrapper(s, c, [make |-> "task", properties |-> pairs])
        read_task_code == [query |-> "task", document |-> DocumentName, task |-> new_id]
        task_data == HostNewTaskRecord(new_id, properties)
        s1 == TaskInit(s, task_data, c)
        bridge == <<create_task_code, read_task_code>>
    IN  IF Failed(s1) THEN [s1 EXCEPT !.ret = [task |-> 0, bridge |-> bridge]]
        ELSE [add_task(s1, c, s1.ret) EXCEPT !.ret = [task |-> s1.ret, bridge |-> bridge]]

----------------------------------------------------------------------------
(* The state machine *)

\* The heap as one record, for the operators above
State ==
    [attrs |-> attrs, tasks |-> tasks, parent |-> parent,
     change_records |-> change_records, task_ras |-> task_ras,
     prerequisites |-> prerequisites, dependents |-> dependents,
     resources |-> resources, assignments |-> assignments,
     dependencies |-> dependencies, task_map |-> task_map,
     resource_map |-> resource_map,
     custom_data_value_to_task_map |-> custom_data_value_to_task_map,
     selected_tasks |-> selected_tasks, selected_resources |-> selected_resources,
     next_serial |-> next_serial, error |-> NoError, ret |-> None]

Install(s) ==
    /\ attrs' = s.attrs
    /\ tasks' = s.tasks
    /\ parent' = s.parent
    /\ change_records' = s.change_records
    /\ task_ras' = s.task_ras
    /\ prerequisites' = s.prerequisites
    /\ dependents' = s.dependents
    /\ resources' = s.resources
    /\ assignments' = s.assignments
    /\ dependencies' = s.dependencies
    /\ task_map' = s.task_map
    /\ resource_map' = s.resource_map
    /\ custom_data_value_to_task_map' = s.custom_data_value_to_task_map
    /\ selected_tasks' = s.selected_tasks
    /\ selected_resources' = s.selected_resources
    /\ next_serial' = s.next_serial

\* The Task objects a caller can hold: those whose constructor has returned
Tasks == DOMAIN change_records
Resources == DOMAIN resources
Collections == {Doc} \cup Tasks

NothingLoaded ==
    /\ loaded = FALSE
    /\ attrs = <<>>
    /\ tasks = (Doc :> <<>>)
    /\ parent = <<>>
    /\ change_records = EmptyDict
    /\ task_ras = <<>>
    /\ prerequisites = <<>>
    /\ dependents = <<>>
    /\ resources = <<>>
    /\ assignments = <<>>
    /\ dependencies = <<>>
    /\ task_map = EmptyDict
    /\ resource_map = EmptyDict
    /\ custom_data_value_to_task_map = EmptyDict
    /\ selected_tasks = <<>>
    /\ selected_resources = <<>>
    /\ next_serial = 1
    /\ calls = 0
    /\ rendered = EmptyDict
    /\ assigned = EmptyDict
    /\ provenance = [payload |-> "none", live_tasks |-> {}, live_resources |-> {}]

\* The state before the first call of the program
InitDocument == NothingLoaded /\ last_op = [op |-> "none"]

\* No snapshot file exists when the program starts
Init == InitDocument /\ cache = AbsentFile

\* Every call the caller makes on the loaded document counts towards MaxCalls
Call ==
    /\ loaded
    /\ calls < MaxCalls
    /\ calls' = calls + 1
    /\ UNCHANGED <<loaded, cache>>

\* OmniPlanDocument(name, allow_cache): a new document object takes the place
\* of the one the caller held. last_op.output is the payload the load had:
\* the output of the live query or, when none was made, the snapshot
LoadDocument(allow_cache, output) ==
    \E init \in {DocumentInit(allow_cache, cache, output)} :
        /\ Install(init.heap)
        /\ loaded' = ~Failed(init.heap)
        /\ cache' = init.read.file
        /\ provenance' = [payload |-> IF Failed(init.heap) THEN "none"
                                      ELSE IF init.read.queried THEN "live"
                                      ELSE "snapshot",
                          live_tasks |-> {}, live_resources |-> {}]
        /\ last_op' = [op |-> "load", error |-> init.heap.error,
                       allow_cache |-> allow_cache, queried |-> init.read.queried,
                       file |-> cache,
                       output |-> IF init.read.queried THEN output
                                  ELSE [empty |-> FALSE,
                                        document_data |-> init.read.document_data]]
        /\ rendered' = EmptyDict
        /\ assigned' = EmptyDict

\* document = OmniPlanDocument(name)
Load(output) ==
    /\ ~loaded
    /\ LoadDocument(FALSE, output)
    /\ UNCHANGED calls

\* document = OmniPlanDocument(name, allow_cache), at any time; a construction
\* counts towards MaxCalls
Construct(allow_cache, output) ==
    /\ calls < MaxCalls
    /\ calls' = calls + 1
    /\ LoadDocument(allow_cache, output)

\* task.<key> = value, for a key of mutable_simple_properties
SetTracked(h, key, value) ==
    /\ Call
    /\ \E s \in {SetAttr(State, h, key, value)} : Install(s)
    /\ assigned' = Put(assigned, next_serial, [before |-> attrs[h][key], after |-> value])
    /\ last_op' = [op |-> "setattr", task |-> h, key |-> key, value |-> value]
    /\ UNCHANGED <<rendered, provenance>>

\* task.priority = value: a property outside mutable_simple_properties
SetPriority(h, value) ==
    /\ Call
    /\ \E s \in {SetAttr(State, h, "priority", value)} : Install(s)
    /\ last_op' = [op |-> "setattr", task |-> h, key |-> "priority", value |-> value]
    /\ UNCHANGED <<rendered, assigned, provenance>>

\* task.set_custom_data_value(name, value)
SetCustomDataValue(h, name, value) ==
    /\ Call
    /\ \E s \in {set_custom_data_value(State, h, name, value)} : Install(s)
    /\ last_op' = [op |-> "set_custom_data_value", task |-> h, name |-> name,
                   value |-> value]
    /\ UNCHANGED <<rendered, assigned, provenance>>

\* task.assign_to_resource(resource)
AssignToResource(h, r) ==
    /\ Call
    /\ \E s \in {assign_to_resource(State, h, r)} : Install(s)
    /\ last_op' = [op |-> "assign_to_resource", task |-> h, resource |-> r]
    /\ UNCHANGED <<rendered, assigned, provenance>>

\* The lines of a commit script, in the order in which the script holds them
ScriptLines(script) == script[1].body.body \o script[2].body

\* The change records a commit script renders, by identity
RenderedSerials(script) ==
    {ScriptLines(script)[i].serial : i \in DOMAIN ScriptLines(script)}

\* How often the script renders the record with this serial
TimesRendered(script, serial) ==
    Cardinality({i \in DOMAIN ScriptLines(script) : ScriptLines(script)[i].serial = serial})

\* task.commit_changes(dry_run) ; bridge_raises: the bridge call, if made, raises
Commit(h, dry_run, bridge_raises) ==
    /\ Call
    /\ dry_run => ~bridge_raises
    /\ \E s \in {commit_changes(State, h, dry_run, bridge_raises)} :
         LET now == RenderedSerials(s.ret.script)
         IN
           /\ Install(s)
           /\ rendered' =
                [serial \in DOMAIN rendered \cup now |->
                    [task |-> IF serial \in DOMAIN rendered
                              THEN rendered[serial].task ELSE h,
                     times |-> TimesRendered(s.ret.script, serial)
                                 + (IF serial \in DOMAIN rendered
                                    THEN rendered[serial].times ELSE 0),
                     raised |-> IF serial \in now THEN s.ret.bridge.raised
                                ELSE rendered[serial].raised]]
           /\ last_op' = [op |-> "commit_changes", task |-> h, dry_run |-> dry_run,
                          recorded |-> [i \in DOMAIN change_records[h] |->
                                           [serial |-> change_records[h][i].serial,
                                            kind |-> change_records[h][i].kind,
                                            property |->
                                               IF change_records[h][i].kind = "simple"
                                               THEN change_records[h][i].property_name
                                               ELSE ""]],
                          script |-> s.ret.script,
                          pending_when_rendered |-> s.ret.pending_when_rendered,
                          printed |-> s.ret.printed,
                          bridge |-> s.ret.bridge]
    /\ UNCHANGED <<assigned, provenance>>

\* collection.create_task(properties)
CreateTask(c, properties, new_id) ==
    /\ Call
    /\ Len(attrs) < MaxTasks
    /\ new_id \notin DOMAIN task_map
    /\ \E s \in {create_task(State, c, properties, new_id)} :
           /\ Install(s)
           /\ last_op' = [op |-> "create_task", collection |-> c, task |-> s.ret.task,
                          properties |-> properties, error |-> s.error,
                          bridge |-> s.ret.bridge]
           /\ provenance' = IF Failed(s) THEN provenance
                            ELSE [provenance EXCEPT !.live_tasks = @ \cup {s.ret.task}]
    /\ UNCHANGED <<rendered, assigned>>

\* document.create_resource(name)
CreateResource(name, new_id) ==
    /\ Call
    /\ new_id \notin DOMAIN resource_map
    /\ \E s \in {create_resource(State, name, new_id)} :
           /\ Install(s)
           /\ last_op' = [op |-> "create_resource", resource |-> s.ret.resource,
                          bridge |-> s.ret.bridge]
           /\ provenance' = [provenance EXCEPT !.live_resources = @ \cup {s.ret.resource}]
    /\ UNCHANGED <<rendered, assigned>>

\* document.tasks_for_custom_data_value(key, value)
Lookup(key, value) ==
    /\ Call
    /\ Install(State)
    /\ last_op' = [op |-> "tasks_for_custom_data_value", key |-> key, value |-> value,
                   result |-> tasks_for_custom_data_value(State, key, value)]
    /\ UNCHANGED <<rendered, assigned, provenance>>

\* list(collection.descendants())
Traverse(c) ==
    /\ Call
    /\ Install(State)
    /\ last_op' = [op |-> "descendants", collection |-> c,
                   result |-> descendants(State, c)]
    /\ UNCHANGED <<rendered, assigned, provenance>>

HostOutputs ==
    {[empty |-> FALSE, document_data |-> d] : d \in Documents}
        \cup {[empty |-> TRUE, document_data |-> NestedDocument]}

Next ==
    \/ \E output \in HostOutputs : Load(output)
    \/ \E h \in Tasks, value \in Efforts : SetTracked(h, "effort", value)
    \/ \E h \in Tasks, value \in CompletedEfforts :
          SetTracked(h, "completed_effort", value)
    \/ \E h \in Tasks, value \in Names : SetTracked(h, "name", value)
    \/ \E h \in Tasks, value \in Priorities : SetPriority(h, value)
    \/ \E h \in Tasks, name \in CustomNames, value \in SettableCustomValues :
          SetCustomDataValue(h, name, value)
    \/ \E h \in Tasks, r \in Resources : AssignToResource(h, r)
    \/ \E h \in Tasks, dry_run \in BOOLEAN, bridge_raises \in BOOLEAN :
          Commit(h, dry_run, bridge_raises)
    \/ \E c \in Collections, properties \in CreateProperties, new_id \in TaskIds :
          CreateTask(c, properties, new_id)
    \/ \E key \in CustomNames, value \in CustomValues : Lookup(key, value)
    \/ \E c \in Collections : Traverse(c)

Spec == Init /\ [][Next]_vars

\* The snapshot files a run can find: none, one that pickle cannot load, one
\* that holds a false value, and one written by an earlier run
SnapshotFiles == {AbsentFile, UnreadableFile, EmptyPickle, Snapshot(NestedDocument)}

CacheInit == InitDocument /\ cache \in SnapshotFiles

\* The documents the host holds in the runs with caching
CacheOutputs ==
    {[empty |-> FALSE, document_data |-> NestedDocument],
     [empty |-> TRUE, document_data |-> NestedDocument]}

ResourceNames == {"Resource 2"}
ResourceIds == 1..MaxResources

\* Runs that construct documents with and without caching and then create
\* tasks and resources and commit
CacheNext ==
    \/ \E allow_cache \in BOOLEAN, output \in CacheOutputs : Construct(allow_cache, output)
    \/ \E h \in Tasks, value \in Efforts : SetTracked(h, "effort", value)
    \/ \E h \in Tasks, dry_run \in BOOLEAN : Commit(h, dry_run, FALSE)
    \/ \E properties \in CreateProperties, new_id \in TaskIds :
          CreateTask(Doc, properties, new_id)
    \/ \E name \in ResourceNames, new_id \in ResourceIds : CreateResource(name, new_id)

CacheSpec == CacheInit /\ [][CacheNext]_vars

\* Two efforts that differ from each other and from the efforts of the loaded
\* tasks
EditEfforts == {WorkDayTimeInterval(14400, 0), WorkDayTimeInterval(7200, 0)}

\* Property dicts passed to create_task, with keys inside and outside
\* mutable_simple_properties
EditCreateProperties ==
    {[name |-> NameB, completed_effort |-> WorkDayTimeInterval(0, 1)],
     [effort |-> WorkDayTimeInterval(14400, 0)],
     [priority |-> 2],
     [name |-> NameB, priority |-> 2]}

\* Runs that load the document, assign tracked properties more than once,
\* create tasks from several property dicts and commit
EditNext ==
    \/ Load([empty |-> FALSE, document_data |-> NestedDocument])
    \/ \E h \in Tasks, value \in EditEfforts : SetTracked(h, "effort", value)
    \/ \E h \in Tasks, value \in CompletedEfforts :
          SetTracked(h, "completed_effort", value)
    \/ \E h \in Tasks, value \in Names : SetTracked(h, "name", value)
    \/ \E h \in Tasks, dry_run \in BOOLEAN : Commit(h, dry_run, FALSE)
    \/ \E c \in Collections, properties \in EditCreateProperties, new_id \in TaskIds :
          CreateTask(c, properties, new_id)

EditSpec == Init /\ [][EditNext]_vars

\* Inputs of the converters. The bytes of a four-character code: NUL, the
\* letters of 'OPTS', and the two bytes around the sign of the first byte
FourCCBytes == {0, 79, 80, 83, 84, 128, 255}
FourCCStrings == [1..4 -> FourCCBytes]
FourCCValues ==
    {-2147483647 - 1, -16777216, -1, 0, 1, 255, 256, 65535, 65536, 16777215,
     16777216, 1330664531, 2147483647}
PairLists ==
    UNION {[1..n -> [name : {"a", "b"}, value : {"b", "c"}]] : n \in 0..MaxPairs}
DataDicts == UNION {[names -> {"b", "c"}] : names \in SUBSET {"a", "b"}}
WorkdayCounts == 0..MaxWorkdays
SecondCounts == {0, 1, 14400, 28799, 28800, 28801, 57600}

\* A client that calls the converters directly: the arguments of the calls
ConvertInit ==
    /\ NothingLoaded
    /\ cache = AbsentFile
    /\ \/ \E value \in FourCCValues, string \in FourCCStrings :
             last_op = [op |-> "fourcc arguments", value |-> value, string |-> string]
       \/ \E pairs \in PairLists, data_dict \in DataDicts :
             last_op = [op |-> "custom data arguments", pairs |-> pairs,
                        data_dict |-> data_dict]
       \/ \E workdays \in WorkdayCounts, seconds \in SecondCounts :
             last_op = [op |-> "work day arguments", workdays |-> workdays,
                        seconds |-> seconds]

\* FourCharacterCodeValueConverter: decode, encode and both round trips
ConvertFourCC ==
    /\ last_op.op = "fourcc arguments"
    /\ last_op' =
          [op |-> "fourcc", value |-> last_op.value, string |-> last_op.string,
           decoded |-> FourCCValueToString(last_op.value),
           encoded |-> FourCCStringToValue(last_op.string),
           encoded_decoded |-> FourCCStringToValue(FourCCValueToString(last_op.value)),
           decoded_encoded |-> FourCCValueToString(FourCCStringToValue(last_op.string))]
    /\ UNCHANGED <<loaded, heap_vars, calls, rendered, assigned, cache, provenance>>

\* CustomDataValueConverter: decode, encode and both round trips
ConvertCustomData ==
    /\ last_op.op = "custom data arguments"
    /\ last_op' =
          [op |-> "custom data", pairs |-> last_op.pairs,
           data_dict |-> last_op.data_dict,
           decoded |-> CustomDataDecode(last_op.pairs),
           encoded |-> CustomDataEncode(last_op.data_dict),
           encoded_decoded |-> CustomDataEncode(CustomDataDecode(last_op.pairs)),
           decoded_encoded |-> CustomDataDecode(CustomDataEncode(last_op.data_dict))]
    /\ UNCHANGED <<loaded, heap_vars, calls, rendered, assigned, cache, provenance>>

\* WorkDayTimeInterval(workdays=n), WorkDayTimeInterval(seconds=s) and the
\* round trip of WorkDayTimeIntervalValueConverter
ConvertWorkDay ==
    /\ last_op.op = "work day arguments"
    /\ last_op' =
          [op |-> "work day", workdays |-> last_op.workdays, seconds |-> last_op.seconds,
           of_workdays |-> WorkDayTimeInterval(0, last_op.workdays),
           of_seconds |-> WorkDayTimeInterval(last_op.seconds, 0),
           decoded |-> WorkDayDecode(last_op.seconds),
           encoded_decoded |-> WorkDayEncode(WorkDayDecode(last_op.seconds))]
    /\ UNCHANGED <<loaded, heap_vars, calls, rendered, assigned, cache, provenance>>

ConvertNext == ConvertFourCC \/ ConvertCustomData \/ ConvertWorkDay

ConvertSpec == ConvertInit /\ [][ConvertNext]_vars

----------------------------------------------------------------------------
(* Properties of change tracking and commit *)

\* C1: when commit_changes returns or raises, the pending list of the task is
\* empty, and it was already empty when the change records were rendered; a
\* failure of the bridge does not bring the records back.
C1_CommitLeavesNothingPending ==
    last_op.op = "commit_changes" =>
        /\ change_records[last_op.task] = <<>>
        /\ last_op.pending_when_rendered = 0

\* a commit of a non-empty pending list whose bridge call raised
C1_FailedCommitOfPendingRecords ==
    /\ last_op.op = "commit_changes"
    /\ ~last_op.dry_run
    /\ last_op.bridge.raised
    /\ Len(last_op.recorded) > 0
    /\ last_op.bridge.sent # <<>>

\* C2: an assignment to a tracked property of a capturing task appends exactly
\* one change record, naming the property and holding the value the property
\* had just before the assignment, and then installs the new value.
C2_TrackedAssignmentRecordsOldValue ==
    [][(last_op'.op = "setattr" /\ last_op'.key \in {"effort", "name", "completed_effort"}) =>
          LET h == last_op'.task
              key == last_op'.key
          IN  /\ Len(change_records'[h]) = Len(change_records[h]) + 1
              /\ SubSeq(change_records'[h], 1, Len(change_records[h])) = change_records[h]
              /\ Last(change_records'[h]).kind = "simple"
              /\ Last(change_records'[h]).property_name = key
              /\ Last(change_records'[h]).task = h
              /\ Last(change_records'[h]).old_value = attrs[h][key]
              /\ attrs'[h][key] = last_op'.value]_vars

\* an assignment of effort that changed the value: the record holds the old one
C2_EffortAssignedNewValue ==
    /\ last_op.op = "setattr"
    /\ last_op.key = "effort"
    /\ change_records[last_op.task] # <<>>
    /\ Last(change_records[last_op.task]).old_value # attrs[last_op.task].effort
    /\ attrs[last_op.task].effort = last_op.value

\* The identities of a sequence of lines or of recorded change records
SerialsOf(seq) == [i \in DOMAIN seq |-> seq[i].serial]

\* C3 as stated: the operations of the commit script are in the order in
\* which the change records were recorded.
C3_ScriptInRecordingOrder ==
    last_op.op = "commit_changes" =>
        SerialsOf(ScriptLines(last_op.script)) = SerialsOf(last_op.recorded)

\* C3: within the task-scope batch and within the document-scope batch the
\* operations are in recording order, and the script holds the task-scope
\* batch before the document-scope batch.
C3_BatchesInRecordingOrder ==
    last_op.op = "commit_changes" =>
        /\ SerialsOf(last_op.script[1].body.body) =
              SerialsOf(SelectSeq(last_op.recorded,
                                  LAMBDA r : r.kind # "add_resource_assignment"))
        /\ SerialsOf(last_op.script[2].body) =
              SerialsOf(SelectSeq(last_op.recorded,
                                  LAMBDA r : r.kind = "add_resource_assignment"))
        /\ last_op.script[1].body.tell = "task"

\* a commit of a resource assignment recorded before a task-scope change
C3_AssignmentRecordedFirst ==
    /\ last_op.op = "commit_changes"
    /\ \E i, j \in DOMAIN last_op.recorded :
          /\ i < j
          /\ last_op.recorded[i].kind = "add_resource_assignment"
          /\ last_op.recorded[j].kind # "add_resource_assignment"
    /\ Len(last_op.script[1].body.body) >= 1
    /\ Len(last_op.script[2].body) >= 1

\* The pending record that follows record i of task h among those recording
\* the same simple property, as a set (empty when there is none)
NextOfSameProperty(h, i) ==
    LET rs == change_records[h]
        same(j) == /\ rs[j].kind = "simple"
                   /\ rs[j].property_name = rs[i].property_name
    IN  {j \in DOMAIN rs :
            /\ j > i
            /\ same(j)
            /\ \A k \in DOMAIN rs : (i < k /\ k < j) => ~same(k)}

\* C4: assignments to the same tracked property are not coalesced: each has
\* its own pending record, the first holding the value before the first
\* assignment and the next the value the first assignment installed, and a
\* commit renders one operation for each recorded change.
C4_SamePropertyTwiceTwoRecords ==
    /\ \A h \in Tasks : \A i \in DOMAIN change_records[h] :
          change_records[h][i].kind = "simple" =>
             /\ change_records[h][i].serial \in DOMAIN assigned
             /\ change_records[h][i].old_value =
                   assigned[change_records[h][i].serial].before
             /\ \A j \in NextOfSameProperty(h, i) :
                   change_records[h][j].old_value =
                      assigned[change_records[h][i].serial].after
    /\ last_op.op = "commit_changes" =>
          \A i \in DOMAIN last_op.recorded :
             TimesRendered(last_op.script, last_op.recorded[i].serial) = 1

\* a commit of two pending records of the same simple property
C4_CommitOfTwoAssignmentsToOneProperty ==
    /\ last_op.op = "commit_changes"
    /\ \E i, j \in DOMAIN last_op.recorded :
          /\ i < j
          /\ last_op.recorded[i].kind = "simple"
          /\ last_op.recorded[j].kind = "simple"
          /\ last_op.recorded[i].property = last_op.recorded[j].property
    /\ Len(last_op.script[1].body.body) = Len(last_op.recorded)

\* C5: over the life of a task every change record is rendered into at most
\* one commit script: a record that was rendered is never pending again, so a
\* later commit cannot render it, whether or not the earlier script was sent,
\* printed or failed in the bridge.
C5_RenderedAtMostOnce ==
    /\ \A serial \in DOMAIN rendered : rendered[serial].times = 1
    /\ \A h \in Tasks : \A i \in DOMAIN change_records[h] :
          change_records[h][i].serial \notin DOMAIN rendered

\* a commit that follows a commit of the same task whose bridge call raised,
\* and does not render the records of the failed commit
C5_CommitAfterFailedCommit ==
    /\ last_op.op = "commit_changes"
    /\ \E serial \in DOMAIN rendered :
          /\ rendered[serial].task = last_op.task
          /\ rendered[serial].raised
          /\ serial \notin RenderedSerials(last_op.script)

\* C6: a task materialized from host data, by the load of a document or by
\* create_task, has no pending change record, although its constructor
\* assigned effort, name and completed_effort.
C6_MaterializedTaskHasNothingPending ==
    /\ (last_op.op = "load" /\ loaded) =>
          /\ Tasks = 1..Len(attrs)
          /\ \A h \in Tasks : change_records[h] = <<>>
    /\ (last_op.op = "create_task" /\ last_op.task # 0) =>
          /\ last_op.task \in Tasks
          /\ change_records[last_op.task] = <<>>

\* a task made by create_task, with the effort the constructor assigned
C6_CreatedTask ==
    /\ last_op.op = "create_task"
    /\ last_op.task \in Tasks
    /\ attrs[last_op.task].effort = WorkDayTimeInterval(0, 1)
    /\ attrs[last_op.task].name = NameB

\* C7: the pending list of a capturing task grows, by one record at its end,
\* exactly in an assignment to effort, name or completed_effort, in
\* set_custom_data_value and in assign_to_resource, each on that task; it
\* changes otherwise only in a commit of that task. Assignments to other
\* properties, queries and traversals, and calls on other tasks leave it as
\* it is. (The tasks are those of the document the caller holds.)
C7_PendingGrowsOnlyByTrackedMutators ==
    [][(loaded /\ last_op'.op # "load") => \A h \in Tasks :
          LET op == last_op'.op
              recording ==
                 \/ op = "setattr" /\ last_op'.key \in {"effort", "name", "completed_effort"}
                 \/ op \in {"set_custom_data_value", "assign_to_resource"}
          IN  IF recording /\ last_op'.task = h
              THEN /\ Len(change_records'[h]) = Len(change_records[h]) + 1
                   /\ SubSeq(change_records'[h], 1, Len(change_records[h])) =
                         change_records[h]
              ELSE IF op = "commit_changes" /\ last_op'.task = h
                   THEN change_records'[h] = <<>>
                   ELSE change_records'[h] = change_records[h]]_vars

\* an assignment to priority on a task that has pending records, which stay
C7_UntrackedAssignmentWhilePending ==
    /\ last_op.op = "setattr"
    /\ last_op.key = "priority"
    /\ change_records[last_op.task] # <<>>
    /\ attrs[last_op.task].priority = last_op.value

C9_TaskAndDocumentBatches ==
    last_op.op = "commit_changes" =>
        LET script == last_op.script
            recorded == last_op.recorded
        IN  /\ script[1].tell = "document" /\ script[1].document = DocumentName
            /\ script[1].body.tell = "task"
            /\ script[1].body.task = attrs[last_op.task].id
            /\ script[2].tell = "document" /\ script[2].document = DocumentName
            /\ Range(SerialsOf(script[1].body.body)) =
                  {recorded[i].serial : i \in
                      {j \in DOMAIN recorded : recorded[j].kind # "add_resource_assignment"}}
            /\ Range(SerialsOf(script[2].body)) =
                  {recorded[i].serial : i \in
                      {j \in DOMAIN recorded : recorded[j].kind = "add_resource_assignment"}}
            /\ Len(script[1].body.body) + Len(script[2].body) = Len(recorded)

\* a commit of a custom data change and a resource assignment
C9_CommitOfBothScopes ==
    /\ last_op.op = "commit_changes"
    /\ \E i \in DOMAIN last_op.recorded : last_op.recorded[i].kind = "set_custom_data"
    /\ \E i \in DOMAIN last_op.recorded :
          last_op.recorded[i].kind = "add_resource_assignment"
    /\ last_op.script[1].body.body # <<>>
    /\ last_op.script[2].body # <<>>

\* C10 as stated: tasks_for_custom_data_value(key, value) returns exactly the
\* tasks whose custom data currently holds value under key.
C10_LookupReturnsCurrentHolders ==
    last_op.op = "tasks_for_custom_data_value" =>
        Range(last_op.result) =
            {h \in Tasks : /\ last_op.key \in DOMAIN attrs[h].custom_data
                           /\ attrs[h].custom_data[last_op.key] = last_op.value}

----------------------------------------------------------------------------
(* Properties of the indexes and of the object graph *)

\* C11: registration in the custom-data index is idempotent: no bucket holds a
\* task more than once, whatever the number of times the task set the pair or
\* was registered, and every task that holds a pair is in the bucket of the
\* pair, so two tasks that set the same pair are both found by the lookup.
C11_IndexRegistrationIdempotent ==
    /\ \A key \in DOMAIN custom_data_value_to_task_map :
          \A value \in DOMAIN custom_data_value_to_task_map[key] :
             LET bucket == custom_data_value_to_task_map[key][value]
             IN  \A i, j \in DOMAIN bucket : bucket[i] = bucket[j] => i = j
    /\ \A h \in Tasks : \A key \in DOMAIN attrs[h].custom_data :
          h \in Range(tasks_for_custom_data_value(State, key, attrs[h].custom_data[key]))

\* two tasks have set the same pair, one of them twice: both are in the bucket
C11_TwoTasksSetSamePairOneTwice ==
    \E h1, h2 \in Tasks :
       /\ h1 # h2
       /\ \E i, j \in DOMAIN change_records[h1] :
             /\ i < j
             /\ change_records[h1][i].kind = "set_custom_data"
             /\ change_records[h1][j].kind = "set_custom_data"
             /\ change_records[h1][i].name = change_records[h1][j].name
             /\ change_records[h1][i].value = change_records[h1][j].value
             /\ \E k \in DOMAIN change_records[h2] :
                   /\ change_records[h2][k].kind = "set_custom_data"
                   /\ change_records[h2][k].name = change_records[h1][i].name
                   /\ change_records[h2][k].value = change_records[h1][i].value
             /\ {h1, h2} \subseteq
                   Range(tasks_for_custom_data_value(State, change_records[h1][i].name,
                                                     change_records[h1][i].value))

\* How often x occurs in a list
Occurrences(seq, x) == Cardinality({i \in DOMAIN seq : seq[i] = x})

\* C12: every ResourceAssignment is listed by its task exactly as often as by
\* its resource (once), and the lists of a task and of a resource hold only
\* assignments of that task and of that resource: no assignment is registered
\* on one endpoint only, whether made at load or by assign_to_resource.
C12_AssignmentOnBothEndpoints ==
    /\ \A a \in DOMAIN assignments :
          /\ Occurrences(task_ras[assignments[a].task], a) = 1
          /\ Occurrences(resources[assignments[a].resource].resource_assignments, a) = 1
    /\ \A h \in DOMAIN task_ras : \A i \in DOMAIN task_ras[h] :
          /\ task_ras[h][i] \in DOMAIN assignments
          /\ assignments[task_ras[h][i]].task = h
    /\ \A r \in DOMAIN resources : \A i \in DOMAIN resources[r].resource_assignments :
          /\ resources[r].resource_assignments[i] \in DOMAIN assignments
          /\ assignments[resources[r].resource_assignments[i]].resource = r

\* an assignment made at load and one made by assign_to_resource
C12_LoadedAndCallerAssignments ==
    /\ last_op.op = "assign_to_resource"
    /\ Len(assignments) >= 2
    /\ \E h \in Tasks : \E i \in DOMAIN change_records[h] :
          /\ change_records[h][i].kind = "add_resource_assignment"
          /\ change_records[h][i].resource_assignment = Len(assignments)

\* C13: a call task.assign_to_resource(resource) makes the resource occur once
\* more in task.assigned_resources() and the task once more in
\* resource.assigned_tasks(), through one new assignment with units 1, and
\* appends one change record, which names that assignment and targets the
\* document, to the pending list of the task.
C13_AssignToResourceAddsOneEdge ==
    [][last_op'.op = "assign_to_resource" =>
          LET h == last_op'.task
              r == last_op'.resource
              a == Len(assignments')
          IN  /\ Occurrences(assigned_resources(State', h), r) =
                    Occurrences(assigned_resources(State, h), r) + 1
              /\ Occurrences(assigned_tasks(State', r), h) =
                    Occurrences(assigned_tasks(State, r), h) + 1
              /\ Len(assigned_resources(State', h)) = Len(assigned_resources(State, h)) + 1
              /\ Len(assigned_tasks(State', r)) = Len(assigned_tasks(State, r)) + 1
              /\ Len(assignments') = Len(assignments) + 1
              /\ assignments'[a] = [resource |-> r, task |-> h, units |-> 1]
              /\ Len(change_records'[h]) = Len(change_records[h]) + 1
              /\ Last(change_records'[h]).kind = "add_resource_assignment"
              /\ Last(change_records'[h]).resource_assignment = a]_vars

\* a task assigned to a resource it was not linked to: one edge on each side
C13_NewEdgeOnceOnEachSide ==
    /\ last_op.op = "assign_to_resource"
    /\ Occurrences(assigned_resources(State, last_op.task), last_op.resource) = 1
    /\ Occurrences(assigned_tasks(State, last_op.resource), last_op.task) = 1
    /\ change_records[last_op.task] # <<>>

\* C14: dependency registration is symmetric: every TaskDependency is listed
\* once among the dependents of its prerequisite task and once among the
\* prerequisites of its dependent task, and nowhere else, so P occurs in
\* Q.prerequisite_tasks() as often as Q occurs in P.dependent_tasks().
C14_DependencyOnBothTasks ==
    /\ \A d \in DOMAIN dependencies :
          /\ Occurrences(dependents[dependencies[d].prerequisite_task], d) = 1
          /\ Occurrences(prerequisites[dependencies[d].dependent_task], d) = 1
    /\ \A h \in DOMAIN dependents : \A i \in DOMAIN dependents[h] :
          /\ dependents[h][i] \in DOMAIN dependencies
          /\ dependencies[dependents[h][i]].prerequisite_task = h
    /\ \A h \in DOMAIN prerequisites : \A i \in DOMAIN prerequisites[h] :
          /\ prerequisites[h][i] \in DOMAIN dependencies
          /\ dependencies[prerequisites[h][i]].dependent_task = h
    /\ \A p, q \in DOMAIN dependents :
          Occurrences(prerequisite_tasks(State, q), p) =
             Occurrences(dependent_tasks(State, p), q)

\* the loaded document in which task 2 depends on task 1
C14_LoadedDependency ==
    /\ loaded
    /\ {1, 2} \subseteq DOMAIN task_map
    /\ prerequisite_tasks(State, task_map[2]) = <<task_map[1]>>
    /\ dependent_tasks(State, task_map[1]) = <<task_map[2]>>
    /\ dependent_tasks(State, task_map[2]) = <<>>

----------------------------------------------------------------------------
(* Properties of the load *)

\* The property bags of a task data list, nested ones included
RECURSIVE TaskBags(_)
TaskBags(task_data_list) ==
    IF task_data_list = <<>> THEN {}
    ELSE {Head(task_data_list)}
            \cup (IF "child_tasks" \in DOMAIN Head(task_data_list)
                  THEN TaskBags(Head(task_data_list).child_tasks) ELSE {})
            \cup TaskBags(Tail(task_data_list))

UnknownKeys(bag) == DOMAIN bag \ (simple_properties \cup {"child_tasks"})
MissingKeys(bag) == simple_properties \ DOMAIN bag

DanglingReferences(document_data) ==
    LET bags == TaskBags(document_data.child_tasks)
        task_ids == {bag.id : bag \in bags}
        resource_ids == {document_data.resources[i].id : i \in DOMAIN document_data.resources}
    IN  (IF \E bag \in bags : \E i \in DOMAIN bag.prerequisites_data :
               \/ bag.prerequisites_data[i].prerequisite_task_id \notin task_ids
               \/ bag.prerequisites_data[i].dependent_task_id \notin task_ids
         THEN {"prerequisites_data"} ELSE {})
        \cup
        (IF \E i \in DOMAIN document_data.resources :
               \E j \in DOMAIN document_data.resources[i].task_assignments :
                  document_data.resources[i].task_assignments[j].task_id \notin task_ids
         THEN {"task_assignments"} ELSE {})
        \cup
        (IF \E i \in DOMAIN document_data.selected_task_ids :
               document_data.selected_task_ids[i] \notin task_ids
         THEN {"selected_task_ids"} ELSE {})
        \cup
        (IF \E i \in DOMAIN document_data.selected_resource_ids :
               document_data.selected_resource_ids[i] \notin resource_ids
         THEN {"selected_resource_ids"} ELSE {})

\* C16: a load whose payload refers, in a prerequisite descriptor, a resource
\* task assignment or a selection entry, to an identifier that is not in the
\* identifier index fails with a KeyError for such a reference; a load that
\* succeeds has made one edge for every descriptor and assignment entry and
\* one selection entry for every selected id; and the endpoints of every
\* dependency and assignment are indexed objects.
C16_DanglingReferenceFailsLoad ==
    /\ (/\ last_op.op = "load"
        /\ ~last_op.output.empty
        /\ \A bag \in TaskBags(last_op.output.document_data.child_tasks) :
              UnknownKeys(bag) = {} /\ MissingKeys(bag) = {}) =>
          LET document_data == last_op.output.document_data
              bags == TaskBags(document_data.child_tasks)
              dangling == DanglingReferences(document_data)
          IN  /\ dangling # {} =>
                    /\ ~loaded
                    /\ last_op.error.type \in {"KeyError: task_for_id",
                                               "KeyError: resource_for_id"}
                    /\ last_op.error.detail # {}
                    /\ last_op.error.detail \subseteq dangling
              /\ loaded =>
                    /\ dangling = {}
                    /\ Len(dependencies) =
                          Cardinality(UNION {{<<bag.id, i>> : i \in DOMAIN bag.prerequisites_data} :
                                                bag \in bags})
                    /\ Len(assignments) =
                          Cardinality(UNION {{<<i, j>> : j \in DOMAIN document_data.resources[i].task_assignments} :
                                                i \in DOMAIN document_data.resources})
                    /\ Len(selected_tasks) = Len(document_data.selected_task_ids)
                    /\ Len(selected_resources) = Len(document_data.selected_resource_ids)
    /\ \A d \in DOMAIN dependencies :
          /\ dependencies[d].prerequisite_task \in Range(task_map)
          /\ dependencies[d].dependent_task \in Range(task_map)
    /\ \A a \in DOMAIN assignments :
          /\ assignments[a].task \in Range(task_map)
          /\ assignments[a].resource \in Range(resource_map)

\* a load rejected because a prerequisite descriptor names an absent task
C16_LoadRejectedForDanglingPrerequisite ==
    /\ last_op.op = "load"
    /\ ~loaded
    /\ last_op.error.type = "KeyError: task_for_id"
    /\ last_op.error.detail = {"prerequisites_data"}
    /\ dependencies = <<>>

\* C17: when the live query of a load gives no output, the construction of the
\* document fails at once with the error that names the document, and nothing
\* has been built: no task, resource, dependency, assignment, selection or
\* index entry exists, and the caller holds no document.
C17_NoOutputFailsBeforeBuilding ==
    (last_op.op = "load" /\ last_op.queried /\ last_op.output.empty) =>
        /\ ~loaded
        /\ last_op.error = [type |-> "Unable to get project data for OmniPlan document",
                            detail |-> {DocumentName}]
        /\ attrs = <<>>
        /\ tasks = (Doc :> <<>>)
        /\ resources = <<>>
        /\ assignments = <<>>
        /\ dependencies = <<>>
        /\ DOMAIN task_map = {}
        /\ DOMAIN resource_map = {}
        /\ DOMAIN custom_data_value_to_task_map = {}
        /\ selected_tasks = <<>>
        /\ selected_resources = <<>>

\* a load whose live query gave no output
C17_LoadWithoutOutput ==
    /\ last_op.op = "load"
    /\ last_op.queried
    /\ last_op.output.empty
    /\ last_op.error.type # "ok"

\* C18: a load with caching calls the query bridge exactly when the snapshot
\* file holds no payload (it is absent, unreadable or holds a false value), and
\* then writes the payload the query returned as the new snapshot; when the
\* file holds a payload, the load takes it, makes no query and leaves the file
\* as it is. A load without caching always calls the query bridge and leaves
\* the file as it is, whatever it holds.
C18_SnapshotReplacesLiveQuery ==
    [][last_op'.op = "load" =>
          LET present == cache.kind = "snapshot" /\ PayloadTruthy(cache.document_data)
          IN  IF last_op'.allow_cache
              THEN /\ last_op'.queried <=> ~present
                   /\ (last_op'.queried /\ ~last_op'.output.empty) =>
                         cache' = Snapshot(last_op'.output.document_data)
                   /\ (last_op'.queried /\ last_op'.output.empty) => cache' = cache
                   /\ ~last_op'.queried =>
                         /\ cache' = cache
                         /\ last_op'.output.document_data = cache.document_data
              ELSE /\ last_op'.queried
                   /\ cache' = cache]_vars

\* a document loaded from the snapshot, without a live query
C18_LoadedFromSnapshot ==
    /\ last_op.op = "load"
    /\ last_op.allow_cache
    /\ ~last_op.queried
    /\ loaded
    /\ last_op.file.kind = "snapshot"
    /\ cache = last_op.file

\* C19 as stated: a document whose payload came from the snapshot holds no
\* task and no resource made from the result of a live bridge call, whatever
\* create_task, create_resource and commit calls were made on it.
C19_SnapshotDocumentHoldsNoLiveEntity ==
    provenance.payload = "snapshot" =>
        /\ \A h \in Range(all_tasks(State)) : h \notin provenance.live_tasks
        /\ \A r \in Range(resource_map) : r \notin provenance.live_resources

----------------------------------------------------------------------------
(* Properties of the traversal *)

\* The tasks that can be reached from a set of tasks through child lists
RECURSIVE ReachableFrom(_)
ReachableFrom(set) ==
    LET more == set \cup UNION {Range(tasks[h]) : h \in set}
    IN  IF more = set THEN set ELSE ReachableFrom(more)

\* The tasks below a collection in the tree
Below(c) == ReachableFrom(Range(tasks[c]))

\* The position of a task in a list that holds it once
PositionIn(seq, h) == CHOOSE i \in DOMAIN seq : seq[i] = h

\* C20: descendants() of a collection yields every task below it exactly once
\* and never the collection itself, each task directly followed by all the
\* tasks below it, the children of one collection in the order of its child
\* list (depth first, pre-order); a second call on the unchanged tree yields
\* the same sequence, and all_tasks() is descendants() of the document.
C20_DescendantsDepthFirstPreOrder ==
    last_op.op = "descendants" =>
        LET c == last_op.collection
            result == last_op.result
        IN  /\ Range(result) = Below(c)
            /\ Len(result) = Cardinality(Below(c))
            /\ c \notin Range(result)
            /\ \A i \in DOMAIN result :
                  /\ i + Cardinality(Below(result[i])) <= Len(result)
                  /\ {result[j] : j \in (i + 1)..(i + Cardinality(Below(result[i])))} =
                        Below(result[i])
            /\ \A x \in {c} \cup Range(result) : \A a, b \in DOMAIN tasks[x] :
                  a < b => PositionIn(result, tasks[x][a]) < PositionIn(result, tasks[x][b])
            /\ descendants(State, c) = result
            /\ c = Doc => all_tasks(State) = result

\* a traversal of a document whose first task has a child and a later sibling
C20_TraversalOfNestedTree ==
    /\ last_op.op = "descendants"
    /\ last_op.collection = Doc
    /\ Len(tasks[Doc]) >= 2
    /\ tasks[tasks[Doc][1]] # <<>>
    /\ Len(last_op.result) >= 3

----------------------------------------------------------------------------
(* Properties of the task tree and the task index *)

\* C21: in a loaded document, after any create_task calls, every task is held
\* exactly once in the child list of exactly one collection, that collection is
\* the task's parent, and the walk along the parent links from the task ends
\* at the document, which is the one collection without a parent.
C21_EveryTaskInOneChildListOfItsParent ==
    loaded =>
        /\ Doc \notin DOMAIN parent
        /\ \A h \in Tasks :
              /\ {c \in Collections : Occurrences(tasks[c], h) > 0} = {parent[h]}
              /\ Occurrences(tasks[parent[h]], h) = 1
              /\ root(State, h) = Doc

\* C21 witness: a task was created under a nested task of the loaded tree
C21_TaskCreatedUnderNestedTask ==
    /\ loaded
    /\ last_op.op = "create_task"
    /\ last_op.collection \in Tasks
    /\ parent[last_op.collection] # Doc
    /\ parent[last_op.task] = last_op.collection

\* C22: in a loaded document, after any create_task calls, the task index
\* leads from the id of every task of the tree (nested tasks included) to that
\* task, no two tasks of the tree have the same id, and the index has exactly
\* one entry for each task of the tree.
C22_IndexHasOneEntryPerTaskOfTheTree ==
    loaded =>
        LET tree == all_tasks(State)
        IN  /\ \A i \in DOMAIN tree :
                  /\ attrs[tree[i]].id \in DOMAIN task_map
                  /\ task_map[attrs[tree[i]].id] = tree[i]
            /\ \A i, j \in DOMAIN tree :
                  attrs[tree[i]].id = attrs[tree[j]].id => i = j
            /\ Cardinality(DOMAIN task_map) = Len(tree)
            /\ Range(task_map) = Range(tree)

\* C22 witness: the tree holds a nested task of the load and a created task
C22_NestedAndCreatedTasksIndexed ==
    /\ loaded
    /\ last_op.op = "create_task"
    /\ Len(all_tasks(State)) = 3
    /\ \E h \in Tasks : parent[h] # Doc /\ h # last_op.task

----------------------------------------------------------------------------
(* Properties of the value conversion layer *)

\* C23: in a loaded document each of the four date properties of a task is
\* either None or a timestamp that carries the UTC zone; none is a naive
\* timestamp or an empty wire value.
C23_DatePropertiesAreNoneOrUTC ==
    loaded =>
        \A h \in Tasks :
            \A key \in {"starting_date", "ending_date", "starting_constraint_date",
                        "ending_constraint_date"} :
                \/ attrs[h][key] = NoneDate
                \/ attrs[h][key].kind = "datetime" /\ attrs[h][key].tzinfo = "UTC"

----------------------------------------------------------------------------
(* Properties of create_task *)

\* C24: a create_task call that succeeds makes two bridge calls, first the
\* script that makes the task in the collection and then the task-data query
\* for the id of the new task; the new task becomes the last child of the
\* collection, has the collection as its parent, is entered in the task index
\* under its id and in the custom-data index under each of its pairs, and has
\* no pending change record; the tasks, edges and pending records that existed
\* before are as they were.
C24_CreateTaskAddsOneTaskAsLastChild ==
    [][(last_op'.op = "create_task" /\ last_op'.error.type = "ok") =>
          LET c == last_op'.collection
              t == last_op'.task
              bridge == last_op'.bridge
              id == attrs'[t].id
          IN  /\ Len(bridge) = 2
              /\ bridge[1].tell = "document"
              /\ c # Doc => bridge[1].body.tell = "task" /\ bridge[1].body.task = attrs[c].id
              /\ (IF c = Doc THEN bridge[1].body ELSE bridge[1].body.body).make = "task"
              /\ bridge[2].query = "task" /\ bridge[2].task = id
              /\ t \notin Tasks /\ Tasks' = Tasks \cup {t}
              /\ tasks'[c] = Append(tasks[c], t)
              /\ parent'[t] = c
              /\ tasks'[t] = <<>>
              /\ id \notin DOMAIN task_map
              /\ task_map' = Put(task_map, id, t)
              /\ \A key \in DOMAIN attrs'[t].custom_data :
                    Occurrences(tasks_for_custom_data_value(State', key,
                                    attrs'[t].custom_data[key]), t) = 1
              /\ \A key \in CustomNames, value \in CustomValues :
                    SelectSeq(tasks_for_custom_data_value(State', key, value),
                              LAMBDA h : h # t)
                        = tasks_for_custom_data_value(State, key, value)
              /\ change_records'[t] = <<>>
              /\ \A h \in Tasks :
                    /\ attrs'[h] = attrs[h]
                    /\ parent'[h] = parent[h]
                    /\ change_records'[h] = change_records[h]
                    /\ task_ras'[h] = task_ras[h]
                    /\ prerequisites'[h] = prerequisites[h]
                    /\ dependents'[h] = dependents[h]
                    /\ h # c => tasks'[h] = tasks[h]
              /\ c # Doc => tasks'[Doc] = tasks[Doc]
              /\ task_ras'[t] = <<>> /\ prerequisites'[t] = <<>> /\ dependents'[t] = <<>>
              /\ UNCHANGED <<resources, assignments, dependencies, resource_map,
                             selected_tasks, selected_resources>>
      ]_vars

\* C24 witness: a task was created as the second child of its collection while
\* another task had a pending change record
C24_CreatedAfterSiblingWithPendingRecords ==
    /\ loaded
    /\ last_op.op = "create_task"
    /\ last_op.error.type = "ok"
    /\ Len(tasks[last_op.collection]) = 2
    /\ Last(tasks[last_op.collection]) = last_op.task
    /\ \E h \in Tasks : change_records[h] # <<>>

\* C25: create_task with a property key outside the mutable-property table
\* raises before any bridge call and leaves the document as it was; every
\* property that create_task or a commit renders is addressed by its external
\* name (completed_effort as "completed effort", the others by their own name)
\* and its value is quoted exactly when the property is name.
C25_UnknownPropertyFatalAndKnownOnesRenderedByTable ==
    [][LET ExternalName(key) ==
               IF key = "completed_effort" THEN "completed effort" ELSE key
           Rendered(key, value) ==
               IF key = "name" THEN "\"" \o Join(EscapeQuotes(value)) \o "\""
               ELSE ToString(Seconds(value))
       IN  /\ last_op'.op = "create_task" =>
                 LET properties == last_op'.properties
                     pairs == IF last_op'.bridge = <<>> THEN <<>>
                              ELSE (IF last_op'.collection = Doc
                                    THEN last_op'.bridge[1].body
                                    ELSE last_op'.bridge[1].body.body).properties
                 IN  IF \E key \in DOMAIN properties :
                            key \notin {"effort", "name", "completed_effort"}
                     THEN /\ last_op'.error.type # "ok"
                          /\ last_op'.bridge = <<>>
                          /\ UNCHANGED <<attrs, tasks, parent, change_records, task_ras,
                                         prerequisites, dependents, resources,
                                         assignments, dependencies, task_map,
                                         resource_map, custom_data_value_to_task_map,
                                         selected_tasks, selected_resources>>
                     ELSE /\ last_op'.error.type = "ok"
                          /\ Len(pairs) = Cardinality(DOMAIN properties)
                          /\ \A key \in DOMAIN properties :
                                \E i \in DOMAIN pairs :
                                    pairs[i] = ExternalName(key) \o ": "
                                                 \o Rendered(key, properties[key])
           /\ last_op'.op = "commit_changes" =>
                 LET lines == ScriptLines(last_op'.script)
                     recorded == last_op'.recorded
                 IN  \A i \in DOMAIN lines, j \in DOMAIN recorded :
                        (recorded[j].serial = lines[i].serial
                            /\ recorded[j].kind = "simple") =>
                           lines[i].code =
                               "set " \o ExternalName(recorded[j].property) \o " to "
                                 \o Rendered(recorded[j].property,
                                             attrs[last_op'.task][recorded[j].property])
      ]_vars

\* C25 witness: create_task was called on a loaded document with a property
\* that is not in the table, after a commit rendered completed_effort
C25_CreateTaskWithUnknownProperty ==
    /\ loaded
    /\ last_op.op = "create_task"
    /\ "priority" \in DOMAIN last_op.properties
    /\ \E k \in DOMAIN rendered :
          /\ assigned[k].after \in CompletedEfforts
          /\ assigned[k].before = WorkDayTimeInterval(0, 0)

----------------------------------------------------------------------------
(* Properties of rendering at commit *)

\* C29: a commit renders each simple-property record with the value the
\* property has when the commit runs, which is the value the last assignment
\* to that property installed, and not the value installed by the assignment
\* that made the record: two records of one property render the same value.
C29_SimpleRecordRenderedWithValueAtCommit ==
    [][last_op'.op = "commit_changes" =>
          LET lines == ScriptLines(last_op'.script)
              recorded == last_op'.recorded
              h == last_op'.task
              SameProperty(j) ==
                  {k \in DOMAIN recorded :
                      /\ recorded[k].kind = "simple"
                      /\ recorded[k].property = recorded[j].property}
              LastOf(j) == CHOOSE k \in SameProperty(j) :
                               \A k2 \in SameProperty(j) : k2 <= k
              Text(key, value) ==
                  "set " \o (IF key = "completed_effort" THEN "completed effort" ELSE key)
                    \o " to "
                    \o (IF key = "name" THEN "\"" \o Join(EscapeQuotes(value)) \o "\""
                        ELSE ToString(Seconds(value)))
          IN  \A i \in DOMAIN lines, j \in DOMAIN recorded :
                 (recorded[j].serial = lines[i].serial /\ recorded[j].kind = "simple") =>
                    /\ attrs[h][recorded[j].property]
                          = assigned[recorded[LastOf(j)].serial].after
                    /\ lines[i].code =
                          Text(recorded[j].property,
                               assigned[recorded[LastOf(j)].serial].after)
      ]_vars

\* C29 witness: effort was set to one value and then to another, and the
\* commit rendered both records
C29_CommitAfterTwoDifferentEfforts ==
    /\ last_op.op = "commit_changes"
    /\ Len(ScriptLines(last_op.script)) = 2
    /\ \A j \in DOMAIN last_op.recorded : last_op.recorded[j].property = "effort"
    /\ Len(last_op.recorded) = 2
    /\ assigned[last_op.recorded[1].serial].after
          # assigned[last_op.recorded[2].serial].after
    /\ ScriptLines(last_op.script)[1].code = ScriptLines(last_op.script)[2].code

\* C26: the four-character-code conversion is a bijection between strings of
\* four characters and signed 32-bit integers read big-endian: encoding the
\* decoded value gives the value back, decoding the encoded string gives the
\* string back, 1330664531 decodes to 'OPTS' and 'OPTS' encodes to 1330664531.
C26_FourCCRoundTrips ==
    last_op.op = "fourcc" =>
        /\ last_op.encoded_decoded = last_op.value
        /\ last_op.decoded_encoded = last_op.string
        /\ last_op.decoded \in [1..4 -> 0..255]
        /\ last_op.value = 1330664531 => last_op.decoded = <<79, 80, 84, 83>>
        /\ last_op.string = <<79, 80, 84, 83>> => last_op.encoded = 1330664531
        /\ last_op.string[1] >= 128 <=> last_op.encoded < 0

\* C26 witness: 1330664531 and 'OPTS' were converted
C26_ConvertedOPTS ==
    /\ last_op.op = "fourcc"
    /\ last_op.value = 1330664531
    /\ last_op.string = <<79, 80, 84, 83>>

\* C27 (as stated): for every pair list, encoding the decoded list gives a
\* list with the same set of (name, value) pairs as the list.
C27_EveryPairListRoundTrips ==
    last_op.op = "custom data" =>
        Range(last_op.encoded_decoded) = Range(last_op.pairs)

\* C27 (amended): for every pair list whose names are pairwise different,
\* encoding the decoded list gives a list with the same set of pairs, one entry
\* per pair; for any pair list the result holds the last pair of each name and
\* nothing else; for every mapping, decoding the encoded mapping gives the
\* mapping back.
C27_CustomDataRoundTrips ==
    last_op.op = "custom data" =>
        LET pairs == last_op.pairs
            back == last_op.encoded_decoded
            LastOfName(i) == \A j \in DOMAIN pairs : pairs[j].name = pairs[i].name => j <= i
        IN  /\ (\A i, j \in DOMAIN pairs : pairs[i].name = pairs[j].name => i = j) =>
                  /\ Range(back) = Range(pairs)
                  /\ Len(back) = Len(pairs)
            /\ Range(back) = {pairs[i] : i \in {i \in DOMAIN pairs : LastOfName(i)}}
            /\ last_op.decoded_encoded = last_op.data_dict
            /\ Len(last_op.encoded) = Cardinality(DOMAIN last_op.data_dict)

\* C27 witness: a list of two pairs with different names and a mapping with
\* two keys were converted
C27_ConvertedTwoPairsAndTwoKeys ==
    /\ last_op.op = "custom data"
    /\ Len(last_op.pairs) = 2
    /\ last_op.pairs[1].name # last_op.pairs[2].name
    /\ Cardinality(DOMAIN last_op.data_dict) = 2

\* C28: a duration built from n workdays has n * 28800 seconds, a duration
\* built from 28800 seconds equals the duration built from one workday, two
\* durations are equal exactly when their seconds are, and encoding the
\* decoded number of seconds gives the number back.
C28_WorkDayConversion ==
    last_op.op = "work day" =>
        /\ Seconds(last_op.of_workdays) = last_op.workdays * 28800
        /\ last_op.workdays = 1 => Seconds(last_op.of_workdays) = 28800
        /\ last_op.seconds = 28800 => last_op.of_seconds = WorkDayTimeInterval(0, 1)
        /\ (last_op.of_seconds = last_op.of_workdays)
              <=> (Seconds(last_op.of_seconds) = Seconds(last_op.of_workdays))
        /\ (last_op.of_seconds = last_op.of_workdays)
              <=> (last_op.seconds = last_op.workdays * 28800)
        /\ last_op.encoded_decoded = last_op.seconds

\* C28 witness: one workday and 28800 seconds were converted
C28_ConvertedOneWorkday ==
    /\ last_op.op = "work day"
    /\ last_op.workdays = 1
    /\ last_op.seconds = 28800

----------------------------------------------------------------------------
(* Properties of failed materialization *)

\* C30: when the materialization of a task fails for an unknown key or a
\* missing property, the task index and the custom-data index of the document
\* hold what they held before the attempt, that is the tasks of the tree that
\* were added before it and no task made during the failed attempt.
C30_FailedMaterializationLeavesIndicesAsBefore ==
    (/\ last_op.op = "load"
     /\ last_op.error.type \in {"Unknown key/value pair in task data",
                                "Missing key/value pair(s) in task data"}) =>
        /\ Range(task_map) = Range(all_tasks(State))
        /\ \A key \in DOMAIN custom_data_value_to_task_map :
              \A value \in DOMAIN custom_data_value_to_task_map[key] :
                 Range(custom_data_value_to_task_map[key][value])
                    \subseteq Range(all_tasks(State))
        /\ \A c \in DOMAIN tasks : c # Doc /\ c \notin Range(all_tasks(State))
                                        => tasks[c] = <<>>

----------------------------------------------------------------------------
(* Properties of the dependency pass of the load *)

\* C31: in a loaded document every task has as many prerequisite tasks as its
\* prerequisites_data has descriptors; the i-th edge among its prerequisites
\* is the edge of its i-th descriptor, with the task itself as dependent task
\* and the task of the descriptor's prerequisite id as prerequisite task; the
\* document has one edge for each descriptor and no other.
C31_OneEdgePerPrerequisiteDescriptor ==
    loaded =>
        /\ \A h \in Tasks :
              LET data == attrs[h].prerequisites_data
              IN  /\ Len(prerequisite_tasks(State, h)) = Len(data)
                  /\ \A i \in DOMAIN data :
                        LET edge == dependencies[prerequisites[h][i]]
                        IN  /\ edge.dependent_task = h
                            /\ edge.prerequisite_task = task_map[data[i].prerequisite_task_id]
                            /\ prerequisite_tasks(State, h)[i] = edge.prerequisite_task
                  /\ \A i, j \in DOMAIN data :
                        prerequisites[h][i] = prerequisites[h][j] => i = j
        /\ \A d \in DOMAIN dependencies :
              \E h \in Tasks : \E i \in DOMAIN prerequisites[h] : prerequisites[h][i] = d

\* C31 witness: the load built the edge of the one descriptor found on task 2
C31_EdgeOfLoadedDescriptor ==
    /\ loaded
    /\ last_op.op = "load"
    /\ \E h \in Tasks :
          /\ Len(attrs[h].prerequisites_data) = 1
          /\ attrs[h].prerequisites_data[1].dependent_task_id = attrs[h].id
          /\ Len(prerequisite_tasks(State, h)) = 1
    /\ Len(dependencies) = 1

----------------------------------------------------------------------------
(* Frame of commit *)

\* C32: a commit on a task changes nothing but the pending list of that task:
\* the pending records of every other task, the property and custom-data
\* values of all tasks, the tree, the task, resource and custom-data indices,
\* the selection and all dependency and assignment edges are after the commit
\* what they were before it.
C32_CommitChangesOnlyPendingListOfItsTask ==
    [][last_op'.op = "commit_changes" =>
          /\ DOMAIN change_records' = DOMAIN change_records
          /\ \A h \in Tasks \ {last_op'.task} :
                change_records'[h] = change_records[h]
          /\ UNCHANGED <<attrs, tasks, parent, task_ras, prerequisites, dependents,
                         resources, assignments, dependencies, task_map,
                         resource_map, custom_data_value_to_task_map,
                         selected_tasks, selected_resources>>
      ]_vars

\* C32 witness: a task with pending records was committed while another task
\* had pending records of its own
C32_CommitWhileOtherTaskHasPendingRecords ==
    /\ last_op.op = "commit_changes"
    /\ Len(last_op.recorded) > 0
    /\ \E h \in Tasks : h # last_op.task /\ change_records[h] # <<>>

====
